---- MODULE Spec2Model ----
(***************************************************************************)
(* CpuActivationKernel (src/src/cpu/kernels/CpuActivationKernel.cpp):      *)
(* validate_arguments / validate / configure over caller-owned tensor      *)
(* descriptors, init_lut, get_mws, name and run_op, with the kernel        *)
(* instance's members as state; and CpuGemmLowpOffsetContributionKernel    *)
(* (src/src/cpu/kernels/CpuGemmLowpOffsetContributionKernel.h).            *)
(*                                                                         *)
(* Pointers are modelled as sequences of length at most one: <<>> is       *)
(* nullptr and <<x>> points to x.  A float scale 1/n is the pair <<1, n>>. *)
(*                                                                         *)
(* Specifications: SpecArgs (one set of arguments from the full domains),  *)
(* Spec (one activation kernel over its lifetime), SpecRun (configure and  *)
(* run_op from two scheduler threads), SpecOffset (the offset contribution *)
(* kernel).                                                                *)
(***************************************************************************)
EXTENDS Integers, Sequences, FiniteSets, Bags, TLC

VARIABLES
    hw,           \* detected hardware capabilities and build target (fixed per run)
    src,          \* caller's source ITensorInfo (pointer)
    dst,          \* caller's destination ITensorInfo (pointer); configure may initialise it
    act,          \* caller's ActivationLayerInfo
    _heuristics,  \* CpuActivationKernel::_heuristics (selected micro-kernel, window)
    _name,        \* CpuActivationKernel::_name
    _act_info,    \* CpuActivationKernel::_act_info
    _window,      \* IKernel::_window, set by ICPPKernel::configure
    lut_manager,  \* LUTManager singleton: the set of LUTInfo keys it holds a table for
    ret,          \* the last call made on the kernel and the Status it produced
    init_lut_passes, \* bag of the tables init_lut has filled so far, one copy per pass
    tensors,      \* the ITensorPack handed to run_op: element buffers of ACL_SRC and ACL_DST
    threads,      \* per scheduler thread: its position inside CpuActivationKernel::run_op
    calls,        \* per element: how many run_op calls reached the micro-kernel with a
                  \* sub-window holding it, since the buffers were last filled
    run_arg,      \* the sub-window argument of the last run_op call
    _func,        \* CpuGemmLowpOffsetContributionKernel::_func
    _a_offset,    \* CpuGemmLowpOffsetContributionKernel::_a_offset
    _b_offset,    \* CpuGemmLowpOffsetContributionKernel::_b_offset
    _k,           \* CpuGemmLowpOffsetContributionKernel::_k
    _scale,       \* CpuGemmLowpOffsetContributionKernel::_scale
    _slide_vector_sum_col, \* CpuGemmLowpOffsetContributionKernel::_slide_vector_sum_col
    mm_result,    \* caller's S32 matrix-multiply result (rows of columns), updated in place
    vector_sum_col, \* caller's column sums (pointer to a vector), nullptr if absent
    vector_sum_row, \* caller's row sums (pointer to a vector), nullptr if absent
    offset_window, \* IKernel::_window of the offset contribution kernel
    offset_runs,  \* run_op calls made on the offset contribution kernel since mm_result was filled
    offset_ret,   \* the last call made on the offset contribution kernel and its outcome
    lut_args,     \* the arguments of the init_lut call being followed
    tmp_lut,      \* the table that call fills: the entries written so far
    lut_i,        \* init_lut's loop counter i
    lut_writes,   \* how often the call has written each index of the table
    _reduction_kernels, \* NEReduceMean::_reduction_kernels, each with the tensors it was configured on
    _reduced_outs,      \* NEReduceMean::_reduced_outs, the intermediate tensors
    _reshape,           \* NEReduceMean::_reshape
    _reduction_ops,     \* NEReduceMean::_reduction_ops
    _keep_dims,         \* NEReduceMean::_keep_dims
    reduced_outs_accesses, \* the accesses the last configure made to _reduced_outs
    reduce_pc,          \* where NEReduceMean::run stands
    reduce_trace,       \* the stages run() has executed since the last call began, in order
    reduce_ret,         \* the last call made on the NEReduceMean object and its outcome
    _upsample,          \* CLDeconvolutionLayerUpsample::_upsample, the kernel and what it was configured on
    _fill,              \* CLDeconvolutionLayerUpsample::_fill
    _output,            \* CLDeconvolutionLayerUpsample::_output
    upsample_pc,        \* where CLDeconvolutionLayerUpsample::run stands
    upsample_runs,      \* the runs of the function entered so far
    cl_queue,           \* the kernels enqueued on the OpenCL command queue, in order
    upsample_ret        \* the last call made on the function and its outcome

vars ==
    <<hw, src, dst, act, _heuristics, _name, _act_info, _window, lut_manager, ret,
      init_lut_passes, tensors, threads, calls, run_arg,
      _func, _a_offset, _b_offset, _k, _scale, _slide_vector_sum_col,
      mm_result, vector_sum_col, vector_sum_row, offset_window, offset_runs, offset_ret,
      lut_args, tmp_lut, lut_i, lut_writes,
      _reduction_kernels, _reduced_outs, _reshape, _reduction_ops, _keep_dims,
      reduced_outs_accesses, reduce_pc, reduce_trace, reduce_ret,
      _upsample, _fill, _output, upsample_pc, upsample_runs, cl_queue, upsample_ret>>

caller == <<hw, src, dst, act>>
members == <<_heuristics, _name, _act_info, _window>>

\* what a run of the activation kernel touches besides the kernel itself
run_state == <<tensors, threads, calls, run_arg>>

\* the offset contribution kernel's members, its caller's tensors, its call record
offset_members == <<_func, _a_offset, _b_offset, _k, _scale, _slide_vector_sum_col>>
offset_tensors == <<mm_result, vector_sum_col, vector_sum_row>>
offset_state == <<offset_members, offset_tensors, offset_window, offset_runs, offset_ret>>

\* everything of the activation kernel, its caller and its runs
\* one call of init_lut followed entry by entry
init_lut_state == <<lut_args, tmp_lut, lut_i, lut_writes>>

\* the NEReduceMean object, its run and its call record
reduce_members == <<_reduction_kernels, _reduced_outs, _reshape, _reduction_ops, _keep_dims>>
reduce_state == <<reduce_members, reduced_outs_accesses, reduce_pc, reduce_trace, reduce_ret>>

\* the CLDeconvolutionLayerUpsample object, its runs and the command queue
upsample_members == <<_upsample, _fill, _output>>
upsample_state == <<upsample_members, upsample_pc, upsample_runs, cl_queue, upsample_ret>>

\* what neither kernel's operations touch
functions_state == <<init_lut_state, reduce_state, upsample_state>>

activation_state ==
    <<caller, members, lut_manager, ret, init_lut_passes, run_state>>

----------------------------------------------------------------------------
(* Bounds *)

\* largest extent of a tensor dimension
MaxExtent == 2

\* init_lut passes followed over one history
MaxInitLutPasses == 2

----------------------------------------------------------------------------
(* Data model *)

nullptr == <<>>
Ptr(x) == <<x>>
Deref(p) == p[1]

\* the scheduler's threads; a thread outside run_op
Threads == {"t1", "t2"}
IdleThread == [pc |-> "idle", arg |-> <<>>, window |-> <<>>, pos |-> 0]

\* a tensor pack with no tensor added to it
EmptyPack == [empty |-> TRUE, src |-> <<>>, dst |-> <<>>, in_place |-> FALSE]

ActivationFunction ==
    {"IDENTITY", "RELU", "BOUNDED_RELU", "LU_BOUNDED_RELU", "LEAKY_RELU", "LOGISTIC",
     "TANH", "SOFT_RELU", "ELU", "SQRT", "SQUARE", "ABS", "LINEAR", "SWISH",
     "HARD_SWISH", "GELU"}

\* the data types validate_arguments lets through, and one it does not
SupportedDataTypes == {"QASYMM8_SIGNED", "QASYMM8", "QSYMM16", "F16", "F32"}
DataType == SupportedDataTypes \cup {"S32"}

QuantizationInfo(scale, offset) == [scale |-> scale, offset |-> offset, is_dynamic |-> FALSE]

\* QuantizationInfo operator!= : scale and offset are compared, the dynamic flag is not
QInfoNotEqual(lhs, rhs) == lhs.scale # rhs.scale \/ lhs.offset # rhs.offset

RECURSIVE Product(_)
Product(s) == IF s = <<>> THEN 1 ELSE Head(s) * Product(Tail(s))

\* TensorShape::total_size / ITensorInfo::total_size: 0 for a descriptor with no shape
total_size(info) == IF info.tensor_shape = <<>> THEN 0 ELSE Product(info.tensor_shape)

is_data_type_quantized_asymmetric_char(dt) == dt \in {"QASYMM8", "QASYMM8_SIGNED"}
is_data_type_quantized_asymmetric(dt) == dt \in {"QASYMM8", "QASYMM8_SIGNED", "QASYMM16"}
is_data_type_quantized_symmetric(dt) == dt \in {"QSYMM16"}

----------------------------------------------------------------------------
(* Activation whitelists *)

qasymm8_activations ==
    {"RELU", "LU_BOUNDED_RELU", "BOUNDED_RELU", "LOGISTIC", "TANH", "HARD_SWISH",
     "LEAKY_RELU", "GELU"}

qasymm8_static_quant_activations == {"RELU", "BOUNDED_RELU", "LU_BOUNDED_RELU"}

qsymm16_activations == {"LOGISTIC", "TANH", "HARD_SWISH", "LU_BOUNDED_RELU"}

----------------------------------------------------------------------------
(* Micro-kernel selection (CpuActivationKernelHeuristics) *)

\* registered variants, most specialised first.  A variant's routine is compiled
\* in unless the build leaves its family of kernels out; hw holds, next to the
\* capabilities of the CPU, the families the build leaves out
available_kernels ==
    << [name |-> "sve_fp16_activation_lut", caps |-> {"sve", "fp16"}, dtypes |-> {"F16"},
        left_out_by |-> "no_fp16_kernels"],
       [name |-> "neon_fp16_activation",    caps |-> {"neon", "fp16"}, dtypes |-> {"F16"},
        left_out_by |-> "no_fp16_kernels"],
       [name |-> "neon_fp32_activation",    caps |-> {"neon"}, dtypes |-> {"F32"},
        left_out_by |-> "no_fp32_kernels"],
       [name |-> "neon_qu8_activation",     caps |-> {"neon"}, dtypes |-> {"QASYMM8"},
        left_out_by |-> "no_qasymm8_kernels"],
       [name |-> "neon_qs8_activation",     caps |-> {"neon"}, dtypes |-> {"QASYMM8_SIGNED"},
        left_out_by |-> "no_qasymm8_signed_kernels"],
       [name |-> "neon_qs16_activation",    caps |-> {"neon"}, dtypes |-> {"QSYMM16"},
        left_out_by |-> "no_qsymm16_kernels"] >>

\* the entry of the table as the build holds it: its routine pointer is null
\* when the build leaves the variant's family out
registered(h, uk) ==
    [name |-> uk.name, caps |-> uk.caps, dtypes |-> uk.dtypes,
     ukernel |-> IF uk.left_out_by \in h THEN nullptr ELSE Ptr(uk.name)]

\* heuristics.kernel(): the first registered variant the hardware can run for the
\* source data type, nullptr when none survives
kernel(h, s, d, a) ==
    LET ok == {i \in 1..Len(available_kernels) :
                  /\ available_kernels[i].caps \subseteq h
                  /\ Deref(s).data_type \in available_kernels[i].dtypes}
    IN  IF ok = {} THEN nullptr
        ELSE Ptr(registered(h, available_kernels[CHOOSE i \in ok : \A j \in ok : i <= j]))

\* uk == nullptr || uk->ukernel == nullptr, testing the variant only
no_ukernel_testing_variant_only(uk) == uk = nullptr

\* uk == nullptr || uk->ukernel == nullptr
no_ukernel(uk) == uk = nullptr \/ Deref(uk).ukernel = nullptr

\* heuristics.mws(): the minimum workload size the heuristics hold for the
\* selected variant, kept here as a token naming the variant it was chosen for
mws(uk) == <<"mws", Deref(uk).name>>

\* the minimum workload size of a default-constructed heuristics object
default_mws == <<"mws", "default">>

\* heuristics.window(): the maximum window over the source shape
window(s) ==
    [i \in 1..Len(Deref(s).tensor_shape) |->
        [start |-> 0, end |-> Deref(s).tensor_shape[i], step |-> 1]]

----------------------------------------------------------------------------
(* validate_arguments *)

\* validate_rules with the destination's shape and data type checked first
validate_rules_destination_first ==
    << "F16_UNSUPPORTED", "DATA_TYPE_NOT_IN",
       "MISMATCHING_SHAPES", "MISMATCHING_DATA_TYPES", "NO_UKERNEL",
       "STATIC_QUANT_ONLY_RELU", "QASYMM8_ONLY", "QSYMM16_ONLY",
       "QASYMM8_TANH", "QASYMM8_LOGISTIC",
       "QASYMM8_SIGNED_TANH", "QASYMM8_SIGNED_LOGISTIC",
       "QSYMM16_TANH", "QSYMM16_LOGISTIC" >>

\* the checks of validate_arguments in source order
validate_rules ==
    << "F16_UNSUPPORTED", "DATA_TYPE_NOT_IN", "NO_UKERNEL",
       "STATIC_QUANT_ONLY_RELU", "QASYMM8_ONLY", "QSYMM16_ONLY",
       "QASYMM8_TANH", "QASYMM8_LOGISTIC",
       "QASYMM8_SIGNED_TANH", "QASYMM8_SIGNED_LOGISTIC",
       "QSYMM16_TANH", "QSYMM16_LOGISTIC",
       "MISMATCHING_SHAPES", "MISMATCHING_DATA_TYPES" >>

\* oq_info taken from the source whatever the destination
oq_info_of_source(s, d) == Deref(s).quantization_info

\* oq_info: the destination's quantization info, the source's when dst is null
oq_info(s, d) ==
    IF d # nullptr THEN Deref(d).quantization_info ELSE Deref(s).quantization_info

\* mandated_oq_info with the zero point of the signed LOGISTIC output taken
\* from the unsigned one
mandated_oq_info_unsigned_offset(r) ==
    CASE r = "QASYMM8_TANH"            -> QuantizationInfo(<<1, 128>>, 128)
      [] r = "QASYMM8_LOGISTIC"        -> QuantizationInfo(<<1, 256>>, 0)
      [] r = "QASYMM8_SIGNED_TANH"     -> QuantizationInfo(<<1, 128>>, 0)
      [] r = "QASYMM8_SIGNED_LOGISTIC" -> QuantizationInfo(<<1, 256>>, 0)
      [] r = "QSYMM16_TANH"            -> QuantizationInfo(<<1, 32768>>, 0)
      [] r = "QSYMM16_LOGISTIC"        -> QuantizationInfo(<<1, 32768>>, 0)

\* the output quantization the TANH / LOGISTIC check r compares oq_info against
mandated_oq_info(r) ==
    CASE r = "QASYMM8_TANH"            -> QuantizationInfo(<<1, 128>>, 128)
      [] r = "QASYMM8_LOGISTIC"        -> QuantizationInfo(<<1, 256>>, 0)
      [] r = "QASYMM8_SIGNED_TANH"     -> QuantizationInfo(<<1, 128>>, 0)
      [] r = "QASYMM8_SIGNED_LOGISTIC" -> QuantizationInfo(<<1, 256>>, -128)
      [] r = "QSYMM16_TANH"            -> QuantizationInfo(<<1, 32768>>, 0)
      [] r = "QSYMM16_LOGISTIC"        -> QuantizationInfo(<<1, 32768>>, 0)

\* dst_is_configured without the total_size test
dst_is_configured_nonnull(d) == d # nullptr

\* "Checks performed when dst is configured"
dst_is_configured(d) == d # nullptr /\ total_size(Deref(d)) # 0

\* the condition under which check r returns an error; evaluated only when every
\* earlier check passed
ErrorOn(r, h, s, d, a) ==
    LET data_type == Deref(s).data_type
        oq        == oq_info(s, d)
        f_act     == a.f
    IN  CASE r = "F16_UNSUPPORTED" ->
                s = nullptr \/ (Deref(s).data_type = "F16" /\ "fp16" \notin h)
          [] r = "DATA_TYPE_NOT_IN" ->
                data_type \notin SupportedDataTypes
          [] r = "NO_UKERNEL" ->
                no_ukernel(kernel(h, s, d, a))
          [] r = "STATIC_QUANT_ONLY_RELU" ->
                /\ is_data_type_quantized_asymmetric_char(data_type)
                /\ oq.is_dynamic
                /\ f_act \notin qasymm8_static_quant_activations
          [] r = "QASYMM8_ONLY" ->
                /\ is_data_type_quantized_asymmetric(data_type)
                /\ f_act \notin qasymm8_activations
          [] r = "QSYMM16_ONLY" ->
                /\ is_data_type_quantized_symmetric(data_type)
                /\ f_act \notin qsymm16_activations
          [] r = "QASYMM8_TANH" ->
                /\ data_type \in {"QASYMM8", "QASYMM16"}
                /\ f_act = "TANH"
                /\ QInfoNotEqual(oq, mandated_oq_info(r))
          [] r = "QASYMM8_LOGISTIC" ->
                /\ data_type \in {"QASYMM8", "QASYMM16"}
                /\ f_act = "LOGISTIC"
                /\ QInfoNotEqual(oq, mandated_oq_info(r))
          [] r = "QASYMM8_SIGNED_TANH" ->
                /\ data_type = "QASYMM8_SIGNED"
                /\ f_act = "TANH"
                /\ QInfoNotEqual(oq, mandated_oq_info(r))
          [] r = "QASYMM8_SIGNED_LOGISTIC" ->
                /\ data_type = "QASYMM8_SIGNED"
                /\ f_act = "LOGISTIC"
                /\ QInfoNotEqual(oq, mandated_oq_info(r))
          [] r = "QSYMM16_TANH" ->
                /\ is_data_type_quantized_symmetric(data_type)
                /\ f_act = "TANH"
                /\ QInfoNotEqual(oq, mandated_oq_info(r))
          [] r = "QSYMM16_LOGISTIC" ->
                /\ is_data_type_quantized_symmetric(data_type)
                /\ f_act = "LOGISTIC"
                /\ QInfoNotEqual(oq, mandated_oq_info(r))
          [] r = "MISMATCHING_SHAPES" ->
                /\ dst_is_configured(d)
                /\ Deref(s).tensor_shape # Deref(d).tensor_shape
          [] r = "MISMATCHING_DATA_TYPES" ->
                /\ dst_is_configured(d)
                /\ Deref(s).data_type # Deref(d).data_type

RECURSIVE FirstError(_, _, _, _, _)
FirstError(i, h, s, d, a) ==
    IF i > Len(validate_rules) THEN "OK"
    ELSE IF ErrorOn(validate_rules[i], h, s, d, a) THEN validate_rules[i]
    ELSE FirstError(i + 1, h, s, d, a)

\* Status validate_arguments(src, dst, activation_info): "OK" or the first failing check
validate_arguments(h, s, d, a) == FirstError(1, h, s, d, a)

\* CpuActivationKernel::validate
validate(h, s, d, a) == validate_arguments(h, s, d, a)

----------------------------------------------------------------------------
(* configure *)

\* QuantizationInfo::uniform(): the (scale, offset) pair without the dynamic flag
uniform(q) == [scale |-> q.scale, offset |-> q.offset]

\* auto_init_if_empty(*dst, *src->clone()): an empty descriptor takes the
\* source's shape and data type, an initialised one is left alone
auto_init_if_empty(d, s) ==
    IF total_size(d) = 0
    THEN [d EXCEPT !.tensor_shape = s.tensor_shape, !.data_type = s.data_type]
    ELSE d

\* init_lut fills a local LookupTable256 from these arguments; the table is
\* identified here by the arguments that determine its 256 entries
init_lut(act_func, data_type, qi_in, qi_out, a, b) ==
    [size |-> 256, built_by |-> "init_lut", act_func |-> act_func,
     data_type |-> data_type, qi_in |-> qi_in, qi_out |-> qi_out, a |-> a, b |-> b]

\* const LUTInfo info = {activation, a, b, data type, uniform input quantization}
LUTInfo(a, s) ==
    [act |-> a.f, alpha |-> a.a, beta |-> a.b, dt |-> Deref(s).data_type,
     qinfo |-> uniform(Deref(s).quantization_info)]

\* lut_manager.get_lut_table<LookupTable65536>(info): the manager's table for info
get_lut_table(info) ==
    [size |-> 65536, built_by |-> "LUTManager", info |-> info]

\* whether configure attaches a 256-entry table (aarch64 builds only)
needs_lut256(h, s, a) ==
    /\ "aarch64" \in h
    /\ Deref(s).data_type \in {"QASYMM8", "QASYMM8_SIGNED"}
    /\ a.f # "RELU"

\* whether configure asks the LUTManager for a 65536-entry table (aarch64 builds only)
needs_lut65536(h, uk) ==
    /\ "aarch64" \in h
    /\ Deref(uk).name = "sve_fp16_activation_lut"

\* configured_act_info that leaves the table of the previous configuration
\* attached when the new one needs none
configured_act_info_keeping_table(h, s, d, a, uk) ==
    LET qi_in  == uniform(Deref(s).quantization_info)
        qi_out == IF d # nullptr THEN uniform(Deref(d).quantization_info) ELSE qi_in
        a1 == IF needs_lut256(h, s, a)
              THEN [a EXCEPT !.lut256 =
                        Ptr(init_lut(a.f, Deref(s).data_type, qi_in, qi_out, a.a, a.b))]
              ELSE [a EXCEPT !.lut256 = _act_info.lut256]
    IN  IF needs_lut65536(h, uk)
        THEN [a1 EXCEPT !.lut65536 = Ptr(get_lut_table(LUTInfo(a, s)))]
        ELSE a1

\* activation_info as stored into _act_info at the end of configure; d is the
\* destination after auto-initialisation
configured_act_info(h, s, d, a, uk) ==
    LET qi_in  == uniform(Deref(s).quantization_info)
        qi_out == IF d # nullptr THEN uniform(Deref(d).quantization_info) ELSE qi_in
        a1 == IF needs_lut256(h, s, a)
              THEN [a EXCEPT !.lut256 =
                        Ptr(init_lut(a.f, Deref(s).data_type, qi_in, qi_out, a.a, a.b))]
              ELSE a
    IN  IF needs_lut65536(h, uk)
        THEN [a1 EXCEPT !.lut65536 = Ptr(get_lut_table(LUTInfo(a, s)))]
        ELSE a1

----------------------------------------------------------------------------
(* Operations *)

\* dst_after_configure without the auto-initialisation
dst_after_configure_skipped(s, d) == d

\* "dst auto inizialitation if not yet initialized": the destination after configure
dst_after_configure(s, d) ==
    IF d # nullptr THEN Ptr(auto_init_if_empty(Deref(d), Deref(s))) ELSE d

\* the kernel name without the variant's name
kernel_name_bare(uk) == <<"CpuActivationKernel">>

\* _name = std::string("CpuActivationKernel").append("/").append(uk->name)
kernel_name(uk) == <<"CpuActivationKernel", "/", Deref(uk).name>>

\* configure past its validation: every member is assigned
Commit ==
    LET uk == kernel(hw, src, dst, act)
        d1 == dst_after_configure(src, dst)
    IN  /\ _heuristics' = [kernel |-> uk, window |-> window(src), mws |-> mws(uk)]
        /\ dst' = d1
        /\ _name' = kernel_name(uk)
        /\ lut_manager' = IF needs_lut65536(hw, uk)
                          THEN lut_manager \cup {LUTInfo(act, src)}
                          ELSE lut_manager
        /\ _act_info' = configured_act_info(hw, src, d1, act, uk)
        /\ init_lut_passes' = IF needs_lut256(hw, src, act)
                              THEN init_lut_passes (+) SetToBag({Deref(_act_info'.lut256)})
                              ELSE init_lut_passes
        /\ _window' = window(src)
        /\ UNCHANGED <<hw, src, act, run_state, offset_state, functions_state>>

\* Validate that also auto-initialises an empty destination on success
Validate_initialising_dst ==
    LET status == validate(hw, src, dst, act) IN
    /\ ret' = [op |-> "validate", status |-> status]
    /\ dst' = IF status = "OK" THEN dst_after_configure(src, dst) ELSE dst
    /\ UNCHANGED <<hw, src, act, members, lut_manager, init_lut_passes, run_state, offset_state, functions_state>>

\* Status CpuActivationKernel::validate(src, dst, act_info)
Validate ==
    /\ ret' = [op |-> "validate", status |-> validate(hw, src, dst, act)]
    /\ UNCHANGED <<caller, members, lut_manager, init_lut_passes, run_state, offset_state, functions_state>>

\* the caller configures between runs, never during one; histories are followed
\* up to MaxInitLutPasses passes of init_lut
CallerMayConfigure(status) ==
    /\ \A t \in Threads : threads[t].pc = "idle"
    /\ (status = "OK" /\ needs_lut256(hw, src, act)) =>
           BagCardinality(init_lut_passes) < MaxInitLutPasses

\* Configure that auto-initialises the destination before it validates
Configure_late_throw ==
    LET status == validate(hw, src, dst, act) IN
    /\ CallerMayConfigure(status)
    /\ ret' = [op |-> "configure", status |-> status]
    /\ IF status # "OK"
       THEN /\ dst' = IF src # nullptr THEN dst_after_configure(src, dst) ELSE dst
            /\ UNCHANGED <<hw, src, act, members, lut_manager, init_lut_passes, run_state, offset_state, functions_state>>
       ELSE Commit

\* void CpuActivationKernel::configure(src, dst, activation_info)
Configure ==
    LET status == validate(hw, src, dst, act) IN
    /\ CallerMayConfigure(status)
    /\ ret' = [op |-> "configure", status |-> status]
    /\ IF status # "OK"
       THEN \* ARM_COMPUTE_ERROR_THROW_ON: the call ends here
            UNCHANGED <<caller, members, lut_manager, init_lut_passes, run_state, offset_state, functions_state>>
       ELSE Commit

----------------------------------------------------------------------------
(* The caller's descriptors *)

\* hardware snapshots: no SIMD, 32-bit NEON, aarch64 NEON, aarch64 with FP16 and SVE
HwSnapshots ==
    { {}, {"neon"}, {"neon", "aarch64"}, {"neon", "aarch64", "fp16", "sve"} }

Shapes == {<<n>> : n \in 1..MaxExtent}

Scales == {<<1, 128>>, <<1, 256>>, <<1, 32768>>}
Offsets == {-128, 0, 128}

QInfos ==
    [scale : Scales, offset : Offsets, is_dynamic : BOOLEAN]

\* the quantization info of a source whose destination carries the output quantization
DefaultQInfo == QuantizationInfo(<<1, 256>>, 0)

\* a data type different from dt
OtherDataType(dt) == IF dt = "F32" THEN "QASYMM8" ELSE "F32"

TensorInfo(dt, shape, q) ==
    [data_type |-> dt, tensor_shape |-> shape, quantization_info |-> q]

\* a default-constructed TensorInfo carrying only a quantization info
EmptyTensorInfo(q) == TensorInfo("UNKNOWN", <<>>, q)

ActivationLayerInfo(f, a, b) ==
    [f |-> f, a |-> a, b |-> b, enabled |-> TRUE, lut256 |-> nullptr, lut65536 |-> nullptr]

\* a default-constructed ActivationLayerInfo
DefaultActivationLayerInfo ==
    [f |-> "IDENTITY", a |-> 0, b |-> 0, enabled |-> FALSE,
     lut256 |-> nullptr, lut65536 |-> nullptr]

\* the destinations a caller may pair with source s
DstFor(s) ==
    {nullptr}
    \cup {Ptr(EmptyTensorInfo(q)) : q \in QInfos}
    \cup {Ptr(TensorInfo(dt, sh, q)) :
            dt \in {s.data_type, OtherDataType(s.data_type)}, sh \in Shapes, q \in QInfos}

\* the state of a kernel instance after construction
Constructed ==
    /\ _heuristics = [kernel |-> nullptr, window |-> <<>>, mws |-> default_mws]
    /\ _name = <<>>
    /\ _act_info = DefaultActivationLayerInfo
    /\ _window = <<>>
    /\ lut_manager = {}
    /\ init_lut_passes = EmptyBag
    /\ ret = [op |-> "none", status |-> "OK"]

\* nothing is being run: no pack, every thread outside run_op
NotRunning ==
    /\ tensors = EmptyPack
    /\ threads = [t \in Threads |-> IdleThread]
    /\ calls = <<>>
    /\ run_arg = <<>>

\* no call of init_lut is being followed
NoInitLutCall ==
    /\ lut_args = <<>>
    /\ tmp_lut = <<>>
    /\ lut_i = 0
    /\ lut_writes = <<>>

\* NEReduceMean after its constructor: empty vectors, value-initialised members,
\* a reshape layer that was never configured
ReduceConstructed ==
    /\ _reduction_kernels = <<>>
    /\ _reduced_outs = <<>>
    /\ _reshape = [configured |-> FALSE, in |-> <<>>, out |-> <<>>]
    /\ _reduction_ops = 0
    /\ _keep_dims = FALSE
    /\ reduced_outs_accesses = {}
    /\ reduce_pc = "idle"
    /\ reduce_trace = <<>>
    /\ reduce_ret = [op |-> "none", status |-> "OK"]

\* CLDeconvolutionLayerUpsample after its constructor: a kernel and a fill
\* function that were never configured, no output; nothing is enqueued
UpsampleConstructed ==
    /\ _upsample = [configured |-> FALSE, input |-> nullptr, output |-> nullptr, info |-> <<>>]
    /\ _fill = [configured |-> FALSE, tensor |-> nullptr, constant_value |-> 0]
    /\ _output = nullptr
    /\ upsample_pc = "idle"
    /\ upsample_runs = 0
    /\ cl_queue = <<>>
    /\ upsample_ret = [op |-> "none", status |-> "OK"]

\* the state outside the two kernels
FunctionsConstructed == NoInitLutCall /\ ReduceConstructed /\ UpsampleConstructed

\* the offset contribution kernel after construction (default member initialisers),
\* its caller holding no tensor yet
OffsetConstructed ==
    /\ _func = nullptr
    /\ _a_offset = 0
    /\ _b_offset = 0
    /\ _k = 0
    /\ _scale = 1
    /\ _slide_vector_sum_col = TRUE
    /\ mm_result = <<>>
    /\ vector_sum_col = nullptr
    /\ vector_sum_row = nullptr
    /\ offset_window = <<>>
    /\ offset_runs = 0
    /\ offset_ret = [op |-> "none", status |-> "OK"]

----------------------------------------------------------------------------
(* SpecArgs: one kernel, one set of arguments drawn from the full domains *)

InitArgs ==
    /\ hw \in HwSnapshots
    /\ \E f \in ActivationFunction : act = ActivationLayerInfo(f, 1, 0)
    /\ \/ src = nullptr /\ dst = nullptr
       \/ \E dt \in DataType, sh \in Shapes :
            \/ /\ dst = nullptr
               /\ \E q \in QInfos : src = Ptr(TensorInfo(dt, sh, q))
            \/ /\ src = Ptr(TensorInfo(dt, sh, DefaultQInfo))
               /\ dst \in DstFor(Deref(src)) \ {nullptr}
    /\ Constructed
    /\ NotRunning
    /\ OffsetConstructed
    /\ FunctionsConstructed

NextArgs == Validate \/ Configure

SpecArgs == InitArgs /\ [][NextArgs]_vars

----------------------------------------------------------------------------
(* Spec: one kernel instance over its lifetime; between calls the caller     *)
(* replaces one of its descriptors                                           *)

LifeDataTypes == {"QASYMM8", "F32", "S32"}
LifeFunctions == {"IDENTITY", "RELU", "TANH", "HARD_SWISH"}
LifeShapes == {<<1>>, <<MaxExtent>>}
LifeQInfos == {[scale |-> <<1, 128>>, offset |-> 128, is_dynamic |-> dy] : dy \in BOOLEAN}

LifeSrc ==
    {nullptr}
    \cup {Ptr(TensorInfo(dt, sh, q)) : dt \in LifeDataTypes, sh \in LifeShapes, q \in LifeQInfos}

LifeDst ==
    {nullptr}
    \cup {Ptr(EmptyTensorInfo(q)) : q \in LifeQInfos}
    \cup {Ptr(TensorInfo(dt, sh, QuantizationInfo(<<1, 128>>, 128))) :
            dt \in LifeDataTypes, sh \in LifeShapes}

LifeAct == {ActivationLayerInfo(f, 1, 0) : f \in LifeFunctions}

Init ==
    /\ hw \in HwSnapshots
    /\ src = nullptr
    /\ dst = nullptr
    /\ act = ActivationLayerInfo("RELU", 1, 0)
    /\ Constructed
    /\ NotRunning
    /\ OffsetConstructed
    /\ FunctionsConstructed

\* the caller builds another source descriptor
CallerSetsSrc ==
    /\ \E s \in LifeSrc : src' = s
    /\ src' # src
    /\ ret' = [op |-> "none", status |-> "OK"]
    /\ UNCHANGED <<hw, dst, act, members, lut_manager, init_lut_passes, run_state, offset_state, functions_state>>

\* the caller builds another destination descriptor, or passes none
CallerSetsDst ==
    /\ \E d \in LifeDst : dst' = d
    /\ dst' # dst
    /\ ret' = [op |-> "none", status |-> "OK"]
    /\ UNCHANGED <<hw, src, act, members, lut_manager, init_lut_passes, run_state, offset_state, functions_state>>

\* the caller builds another activation descriptor
CallerSetsAct ==
    /\ \E a \in LifeAct : act' = a
    /\ act' # act
    /\ ret' = [op |-> "none", status |-> "OK"]
    /\ UNCHANGED <<hw, src, dst, members, lut_manager, init_lut_passes, run_state, offset_state, functions_state>>

Next == Validate \/ Configure \/ CallerSetsSrc \/ CallerSetsDst \/ CallerSetsAct

Spec == Init /\ [][Next]_vars

----------------------------------------------------------------------------
(* Element arithmetic.  A real value is the pair <<p, q>> standing for p/q,  *)
(* q > 0; float rounding of intermediate results is not modelled.            *)

RatLess(x, y) == x[1] * y[2] < y[1] * x[2]
RatMax(x, y) == IF RatLess(x, y) THEN y ELSE x
RatMin(x, y) == IF RatLess(x, y) THEN x ELSE y
RatAdd(x, y) == <<x[1] * y[2] + y[1] * x[2], x[2] * y[2]>>
RatMul(x, y) == <<x[1] * y[1], x[2] * y[2]>>
RatOfInt(n) == <<n, 1>>

\* round to the nearest integer, ties away from zero
round(x) ==
    IF x[1] >= 0
    THEN (2 * x[1] + x[2]) \div (2 * x[2])
    ELSE -((2 * (-x[1]) + x[2]) \div (2 * x[2]))

clamp(v, lo, hi) == IF v < lo THEN lo ELSE IF v > hi THEN hi ELSE v

\* integer conversions to uint8_t and to int8_t
to_uint8(v) == v % 256
to_int8(v) == IF v % 256 >= 128 THEN (v % 256) - 256 ELSE v % 256

\* dequantize that reads the index as an unsigned code whatever the data type
dequantize_as_unsigned(data_type, i, qi) ==
    <<(to_uint8(i) - qi.offset) * qi.scale[1], qi.scale[2]>>

\* dequantize_qasymm8(i, qi) / dequantize_qasymm8_signed(i, qi): the argument is
\* converted to the parameter's type, then (value - offset) * scale
dequantize(data_type, i, qi) ==
    LET value == IF data_type = "QASYMM8" THEN to_uint8(i) ELSE to_int8(i)
    IN  <<(value - qi.offset) * qi.scale[1], qi.scale[2]>>

\* quantize_qasymm8(x, qi) / quantize_qasymm8_signed(x, qi): round(x / scale) + offset,
\* saturated to the range of the type
quantize(data_type, x, qi) ==
    LET q == round(<<x[1] * qi.scale[2], x[2] * qi.scale[1]>>) + qi.offset
    IN  IF data_type = "QASYMM8" THEN clamp(q, 0, 255) ELSE clamp(q, -128, 127)

\* the switch of init_lut over act_func, for the functions that stay rational
switch_act_func(act_func, a, b, tmp_f) ==
    CASE act_func = "HARD_SWISH" ->
            RatMul(tmp_f,
                   RatMul(RatMin(RatMax(RatAdd(tmp_f, RatOfInt(3)), RatOfInt(0)), RatOfInt(6)),
                          <<1, 6>>))
      [] act_func = "LEAKY_RELU" ->
            IF RatLess(RatOfInt(0), tmp_f) THEN tmp_f ELSE RatMul(tmp_f, RatOfInt(a))
      [] act_func = "ABS" -> IF tmp_f[1] < 0 THEN <<-tmp_f[1], tmp_f[2]>> ELSE tmp_f
      [] act_func = "LINEAR" -> RatAdd(RatMul(RatOfInt(a), tmp_f), RatOfInt(b))
      [] act_func = "BOUNDED_RELU" -> RatMin(RatOfInt(a), RatMax(RatOfInt(0), tmp_f))
      [] act_func = "LU_BOUNDED_RELU" -> RatMin(RatOfInt(a), RatMax(RatOfInt(b), tmp_f))
      [] act_func = "SQUARE" -> RatMul(tmp_f, tmp_f)
      [] act_func = "IDENTITY" -> tmp_f

\* lut[i] as init_lut leaves it, for the table built from the arguments in lut
init_lut_entry(lut, i) ==
    to_uint8(quantize(lut.data_type,
                      switch_act_func(lut.act_func, lut.a, lut.b,
                                      dequantize(lut.data_type, i, lut.qi_in)),
                      lut.qi_out))

\* the closed form a micro-kernel computes when it has no table
closed_form(f, a, b, x) ==
    IF f = "RELU" THEN RatMax(RatOfInt(0), x) ELSE switch_act_func(f, a, b, x)

\* one element of the selected routine: a table lookup for 8-bit data with a
\* table attached, the closed form otherwise (requantized for 8-bit data)
ukernel_element(info, s, d, x) ==
    LET dt     == Deref(s).data_type
        qi_in  == uniform(Deref(s).quantization_info)
        qi_out == IF d # nullptr THEN uniform(Deref(d).quantization_info) ELSE qi_in
    IN  IF dt \in {"QASYMM8", "QASYMM8_SIGNED"}
        THEN IF info.lut256 # nullptr
             THEN LET e == init_lut_entry(Deref(info.lut256), to_uint8(x))
                  IN  IF dt = "QASYMM8" THEN e ELSE to_int8(e)
             ELSE quantize(dt, closed_form(info.f, info.a, info.b, dequantize(dt, x, qi_in)),
                           qi_out)
        ELSE closed_form(info.f, info.a, info.b, x)

----------------------------------------------------------------------------
(* run_op of the activation kernel, one scheduler thread per call *)

\* run_op calls followed per element between two fillings of the buffers
MaxCalls == 2

\* the elements (1-based buffer positions) a one-dimensional window covers
Elements(w) == IF w = <<>> THEN {} ELSE {i + 1 : i \in w[1].start .. (w[1].end - 1)}

\* IKernel::is_window_configured
is_window_configured(w) == w # <<>>

\* the condition of ARM_COMPUTE_ERROR_ON_INVALID_SUBWINDOW(full, sub)
invalid_subwindow(full, sub) ==
    \/ Len(full) # Len(sub)
    \/ \E d \in 1..Len(full) :
          \/ full[d].start > sub[d].start
          \/ full[d].end < sub[d].end
          \/ full[d].step # sub[d].step
          \/ (sub[d].start - full[d].start) % full[d].step # 0

\* the buffers the caller puts behind ACL_SRC and ACL_DST
InputData(dt, n) ==
    [i \in 1..n |-> CASE dt = "F32" -> <<3 * i - 4, 1>>
                      [] dt = "QASYMM8" -> 122 + 4 * i
                      [] OTHER -> 4 * i - 6]
PreCallData(dt, n) == [i \in 1..n |-> IF dt = "F32" THEN <<77, 1>> ELSE 77]

\* a pack over a source described by s; in place, both slots hold the same tensor
FilledPack(s, in_place) ==
    LET dt == Deref(s).data_type
        n  == Deref(s).tensor_shape[1]
    IN  [empty |-> FALSE, src |-> InputData(dt, n),
         dst |-> IF in_place THEN InputData(dt, n) ELSE PreCallData(dt, n),
         in_place |-> in_place]

NoCalls(s) == [i \in 1..Deref(s).tensor_shape[1] |-> 0]

\* the sub-windows a scheduler may hand to run_op, some reaching past the tensor
SubWindows ==
    { <<[start |-> r[1], end |-> r[2], step |-> 1]>> :
        r \in {x \in (0..MaxExtent) \X (1..(MaxExtent + 1)) : x[1] < x[2]} }

AllIdle == \A t \in Threads : threads[t].pc = "idle"

\* run_op_checks without the early exit on a disabled activation
run_op_checks_without_early_exit(info, kwin, hk, pack, w) ==
    IF ~is_window_configured(kwin) THEN "UNCONFIGURED_KERNEL"
    ELSE IF invalid_subwindow(kwin, w) THEN "INVALID_SUBWINDOW"
    ELSE IF pack.empty THEN "EMPTY_TENSOR_PACK"
    ELSE IF Deref(hk.kernel).ukernel = nullptr THEN "NULL_UKERNEL"
    ELSE "RUN"

\* where a call of run_op with sub-window w ends, or "RUN" if it reaches run_method
run_op_checks(info, kwin, hk, pack, w) ==
    IF ~info.enabled THEN "EARLY_EXIT"
    ELSE IF ~is_window_configured(kwin) THEN "UNCONFIGURED_KERNEL"
    ELSE IF invalid_subwindow(kwin, w) THEN "INVALID_SUBWINDOW"
    ELSE IF pack.empty THEN "EMPTY_TENSOR_PACK"
    ELSE IF Deref(hk.kernel).ukernel = nullptr THEN "NULL_UKERNEL"
    ELSE "RUN"

\* the outcomes that are fatal errors
Fatal == {"UNCONFIGURED_KERNEL", "INVALID_SUBWINDOW", "EMPTY_TENSOR_PACK", "NULL_UKERNEL"}

\* run_op passing a window that starts where the kernel's window starts
run_method_window_from_origin(kwin, w) == <<[w[1] EXCEPT !.start = kwin[1].start]>>

\* run_op passing the kernel's whole window to run_method
run_method_window_whole(kwin, w) == kwin

\* the window run_op passes to run_method
run_method_window(kwin, w) == w

\* a thread calls run_op(tensors, w, info): the early exit, the precondition
\* checks, and the call of run_method
RunOpEnter ==
    \E t \in Threads, w \in SubWindows :
        LET outcome == run_op_checks(_act_info, _window, _heuristics, tensors, w) IN
        /\ threads[t].pc = "idle"
        /\ \A u \in Threads : Elements(threads[u].arg) \cap Elements(w) = {}
        /\ \A i \in Elements(w) \cap DOMAIN calls : calls[i] < MaxCalls
        /\ run_arg' = w
        /\ ret' = [op |-> "run_op",
                   status |-> CASE outcome = "EARLY_EXIT" -> "OK"
                                [] outcome = "RUN" -> "RUNNING"
                                [] OTHER -> outcome]
        /\ IF outcome = "RUN"
           THEN /\ threads' = [threads EXCEPT ![t] =
                                  [pc |-> "run_method", arg |-> w,
                                   window |-> run_method_window(_window, w),
                                   pos |-> run_method_window(_window, w)[1].start]]
                /\ calls' = [i \in DOMAIN calls |->
                                IF i \in Elements(w) THEN calls[i] + 1 ELSE calls[i]]
           ELSE UNCHANGED <<threads, calls>>
        /\ UNCHANGED <<caller, members, lut_manager, init_lut_passes, tensors, offset_state, functions_state>>

\* run_method handles the next element of its window
RunOpElement ==
    \E t \in Threads :
        LET th == threads[t]
            i  == th.pos + 1
            y  == ukernel_element(_act_info, src, dst, tensors.src[i])
        IN  /\ th.pc = "run_method"
            /\ th.pos < th.window[1].end
            /\ tensors' = [tensors EXCEPT !.dst[i] = y,
                                          !.src[i] = IF tensors.in_place THEN y ELSE @]
            /\ threads' = [threads EXCEPT ![t].pos = th.pos + 1]
            /\ UNCHANGED <<caller, members, lut_manager, init_lut_passes, ret, calls, run_arg,
                           offset_state, functions_state>>

\* run_method is through its window and run_op returns
RunOpReturn ==
    \E t \in Threads :
        /\ threads[t].pc = "run_method"
        /\ threads[t].pos = threads[t].window[1].end
        /\ threads' = [threads EXCEPT ![t] = IdleThread]
        /\ ret' = [op |-> "run_op", status |-> "OK"]
        /\ run_arg' = threads[t].arg
        /\ UNCHANGED <<caller, members, lut_manager, init_lut_passes, tensors, calls,
                       offset_state, functions_state>>

\* size_t CpuActivationKernel::get_mws(platform, thread_count) const
GetMws ==
    /\ ret' = [op |-> "get_mws", status |-> "OK", mws |-> _heuristics.mws]
    /\ UNCHANGED <<caller, members, lut_manager, init_lut_passes, run_state, offset_state, functions_state>>

\* between runs the caller fills the buffers again, or passes a pack holding nothing
CallerFillsTensors ==
    /\ AllIdle
    /\ tensors' \in {EmptyPack, FilledPack(src, dst = nullptr)}
    /\ calls' = NoCalls(src)
    /\ <<tensors', calls'>> # <<tensors, calls>>
    /\ ret' = [op |-> "none", status |-> "OK"]
    /\ UNCHANGED <<caller, members, lut_manager, init_lut_passes, threads, run_arg,
                   offset_state, functions_state>>

\* the sources, destinations and activations of SpecRun
RunHw == { {"neon"}, {"neon", "aarch64"}, {"neon", "aarch64", "no_qasymm8_signed_kernels"} }
RunDataTypes == {"QASYMM8", "QASYMM8_SIGNED", "F32"}
RunFunctions == {"RELU", "SQUARE", "HARD_SWISH"}
RunQInfo(dt) == QuantizationInfo(<<1, 128>>, IF dt = "QASYMM8" THEN 128 ELSE 0)
RunDstQInfo == QuantizationInfo(<<1, 64>>, 10)

InitRun ==
    /\ hw \in RunHw
    /\ \E dt \in RunDataTypes, n \in {1, MaxExtent} :
          src = Ptr(TensorInfo(dt, <<n>>, RunQInfo(dt)))
    /\ dst \in {nullptr, Ptr(EmptyTensorInfo(RunDstQInfo))}
    /\ act \in {DefaultActivationLayerInfo}
               \cup {ActivationLayerInfo(f, 2, -1) : f \in RunFunctions}
    /\ Constructed
    /\ tensors = FilledPack(src, dst = nullptr)
    /\ threads = [t \in Threads |-> IdleThread]
    /\ calls = NoCalls(src)
    /\ run_arg = <<>>
    /\ OffsetConstructed
    /\ FunctionsConstructed

NextRun ==
    \/ Configure
    \/ RunOpEnter
    \/ RunOpElement
    \/ RunOpReturn
    \/ GetMws
    \/ CallerFillsTensors

SpecRun == InitRun /\ [][NextRun]_vars

----------------------------------------------------------------------------
(* CpuGemmLowpOffsetContributionKernel                                       *)
(* (src/src/cpu/kernels/CpuGemmLowpOffsetContributionKernel.h).  mm_result   *)
(* is a sequence of rows; a vector of sums is a sequence behind a pointer.   *)

\* run_op calls followed between two fillings of mm_result
MaxOffsetRuns == 1

Rows(mm) == Len(mm)
Cols(mm) == Len(mm[1])

\* offset_validate_arguments that accepts a missing vector of sums whatever
\* the offset
offset_validate_arguments_accepting_null(mm, col, row, a_offset, b_offset) ==
    IF col # nullptr /\ Len(Deref(col)) # Cols(mm) THEN "VECTOR_SUM_COL_SHAPE"
    ELSE IF row # nullptr /\ Len(Deref(row)) # Rows(mm) THEN "VECTOR_SUM_ROW_SHAPE"
    ELSE "OK"

\* the checks behind validate and configure: a vector of sums may be missing
\* only when its offset is zero, and has one entry per column (row) of mm_result
offset_validate_arguments(mm, col, row, a_offset, b_offset) ==
    IF a_offset # 0 /\ col = nullptr THEN "NULL_VECTOR_SUM_COL"
    ELSE IF col # nullptr /\ Len(Deref(col)) # Cols(mm) THEN "VECTOR_SUM_COL_SHAPE"
    ELSE IF b_offset # 0 /\ row = nullptr THEN "NULL_VECTOR_SUM_ROW"
    ELSE IF row # nullptr /\ Len(Deref(row)) # Rows(mm) THEN "VECTOR_SUM_ROW_SHAPE"
    ELSE "OK"

\* the maximum window over mm_result: dimension 1 runs over columns, 2 over rows
offset_max_window(mm) ==
    <<[start |-> 0, end |-> Cols(mm), step |-> 1], [start |-> 0, end |-> Rows(mm), step |-> 1]>>

\* whether element (row i, column j) lies in window w
InWindow(w, i, j) ==
    /\ j - 1 \in w[1].start .. (w[1].end - 1)
    /\ i - 1 \in w[2].start .. (w[2].end - 1)

\* the term a vector of sums contributes; none when the offset is zero
sum_term(vec, idx, offset) == IF offset = 0 THEN 0 ELSE Deref(vec)[idx] * offset

\* offset_contribution without the (a_offset * b_offset * k) term
offset_contribution_without_k_term(col, row, a_offset, b_offset, k, i, j) ==
    sum_term(col, j, a_offset) + sum_term(row, i, b_offset)

\* (vector_sum_col[k] * a_offset) + (vector_sum_row[i] * b_offset) + (a_offset * b_offset * k)
offset_contribution(col, row, a_offset, b_offset, k, i, j) ==
    sum_term(col, j, a_offset) + sum_term(row, i, b_offset) + a_offset * b_offset * k

\* run_offset_contribution that covers the rows of the window in every column
run_offset_contribution_whole_rows(w, mm, col, row, a_offset, b_offset, k, scale) ==
    [i \in 1..Rows(mm) |->
        [j \in 1..Cols(mm) |->
            IF i - 1 \in w[2].start .. (w[2].end - 1)
            THEN mm[i][j] + scale * offset_contribution(col, row, a_offset, b_offset, k, i, j)
            ELSE mm[i][j]]]

\* mm_result after the offset contribution function has run over window w; the
\* values followed here stay far inside the range of int32_t
run_offset_contribution(w, mm, col, row, a_offset, b_offset, k, scale) ==
    [i \in 1..Rows(mm) |->
        [j \in 1..Cols(mm) |->
            IF InWindow(w, i, j)
            THEN mm[i][j] + scale * offset_contribution(col, row, a_offset, b_offset, k, i, j)
            ELSE mm[i][j]]]

\* the caller configures the kernel, adjusts its offsets and scale and replaces
\* the vectors of sums between batches, not between the sub-window runs of one
BetweenBatches == offset_runs = 0

\* static Status validate(mm_result, vector_sum_col, vector_sum_row, a_offset, b_offset)
OffsetValidate ==
    \E a \in {0, 2}, b \in {0, 3} :
        /\ offset_ret' = [op |-> "validate", a_offset |-> a, b_offset |-> b,
                          status |-> offset_validate_arguments(mm_result, vector_sum_col,
                                                               vector_sum_row, a, b)]
        /\ UNCHANGED <<activation_state, functions_state, offset_members, offset_tensors, offset_window,
                       offset_runs>>

\* configure past its validation
OffsetCommit(k, a, b, scale) ==
    /\ _a_offset' = a
    /\ _b_offset' = b
    /\ _k' = k
    /\ _scale' = scale
    /\ _slide_vector_sum_col' = IF vector_sum_col # nullptr
                                 THEN FALSE  \* a one-dimensional vector is not slid
                                 ELSE _slide_vector_sum_col
    /\ _func' = Ptr("run_offset_contribution")
    /\ offset_window' = offset_max_window(mm_result)

\* OffsetConfigure that stores its arguments before it validates them
OffsetConfigure_storing_first ==
    \E k \in {1, 2}, a \in {0, 2}, b \in {0, 3}, scale \in {1, 2} :
        LET status == offset_validate_arguments(mm_result, vector_sum_col, vector_sum_row, a, b)
        IN  /\ BetweenBatches
            /\ offset_ret' = [op |-> "configure", a_offset |-> a, b_offset |-> b,
                              status |-> status]
            /\ IF status # "OK"
               THEN /\ _a_offset' = a
                    /\ _b_offset' = b
                    /\ _k' = k
                    /\ _scale' = scale
                    /\ UNCHANGED <<_func, _slide_vector_sum_col, offset_window>>
               ELSE OffsetCommit(k, a, b, scale)
            /\ UNCHANGED <<activation_state, functions_state, offset_tensors, offset_runs>>

\* void configure(mm_result, vector_sum_col, vector_sum_row, k, a_offset, b_offset, scale)
OffsetConfigure ==
    \E k \in {1, 2}, a \in {0, 2}, b \in {0, 3}, scale \in {1, 2} :
        LET status == offset_validate_arguments(mm_result, vector_sum_col, vector_sum_row, a, b)
        IN  /\ BetweenBatches
            /\ offset_ret' = [op |-> "configure", a_offset |-> a, b_offset |-> b,
                              status |-> status]
            /\ IF status # "OK"
               THEN UNCHANGED <<offset_members, offset_window>>
               ELSE OffsetCommit(k, a, b, scale)
            /\ UNCHANGED <<activation_state, functions_state, offset_tensors, offset_runs>>

\* void set_a_offset(int32_t a_offset)
SetAOffset ==
    \E a \in {0, 2} :
        /\ BetweenBatches
        /\ _a_offset' = a
        /\ offset_ret' = [op |-> "set_a_offset", status |-> "OK"]
        /\ UNCHANGED <<activation_state, functions_state, _func, _b_offset, _k, _scale, _slide_vector_sum_col,
                       offset_tensors, offset_window, offset_runs>>

\* void set_b_offset(int32_t b_offset)
SetBOffset ==
    \E b \in {0, 3} :
        /\ BetweenBatches
        /\ _b_offset' = b
        /\ offset_ret' = [op |-> "set_b_offset", status |-> "OK"]
        /\ UNCHANGED <<activation_state, functions_state, _func, _a_offset, _k, _scale, _slide_vector_sum_col,
                       offset_tensors, offset_window, offset_runs>>

\* void set_scale(float scale)
SetScale ==
    \E scale \in {1, 2} :
        /\ BetweenBatches
        /\ _scale' = scale
        /\ offset_ret' = [op |-> "set_scale", status |-> "OK"]
        /\ UNCHANGED <<activation_state, functions_state, _func, _a_offset, _b_offset, _k,
                       _slide_vector_sum_col, offset_tensors, offset_window, offset_runs>>

\* the sub-windows of mm_result a scheduler may hand to run_op, some reaching past it
OffsetSubWindows ==
    { <<[start |-> c[1], end |-> c[2], step |-> 1], [start |-> r[1], end |-> r[2], step |-> 1]>> :
        c \in {x \in (0..1) \X (1..2) : x[1] < x[2]},
        r \in {x \in (0..2) \X (1..3) : x[1] < x[2]} }

\* where run_op with sub-window w ends: at a fatal check, inside the contribution
\* function with every vector it needs ("RUN"), or inside it with a non-zero offset
\* whose vector of sums is missing from the pack ("RUN_WITHOUT_SUMS"; nothing in
\* run_op checks for this, see the warning on set_a_offset and set_b_offset)
offset_run_op_checks(kwin, func, col, row, a_offset, b_offset, w) ==
    IF ~is_window_configured(kwin) THEN "UNCONFIGURED_KERNEL"
    ELSE IF invalid_subwindow(kwin, w) THEN "INVALID_SUBWINDOW"
    ELSE IF func = nullptr THEN "NULL_FUNCTION"
    ELSE IF (a_offset # 0 /\ col = nullptr) \/ (b_offset # 0 /\ row = nullptr)
         THEN "RUN_WITHOUT_SUMS"
    ELSE "RUN"

\* what a run may leave in mm_result.  With a vector missing for a non-zero
\* offset the behaviour is undefined: the accumulators are left alone, or
\* receive the contribution of the offsets whose vectors are present
offset_run_results(outcome, w, mm, col, row, a_offset, b_offset, k, scale) ==
    CASE outcome = "RUN" ->
            {run_offset_contribution(w, mm, col, row, a_offset, b_offset, k, scale)}
      [] outcome = "RUN_WITHOUT_SUMS" ->
            {mm, run_offset_contribution(w, mm, col, row,
                                         IF col = nullptr THEN 0 ELSE a_offset,
                                         IF row = nullptr THEN 0 ELSE b_offset, k, scale)}
      [] OTHER -> {mm}

\* run_op(tensors, window, info) with the caller's tensors in the pack
OffsetRunOp ==
    \E w \in OffsetSubWindows :
        LET outcome == offset_run_op_checks(offset_window, _func, vector_sum_col,
                                            vector_sum_row, _a_offset, _b_offset, w)
        IN  /\ offset_runs < MaxOffsetRuns
            /\ vector_sum_col # nullptr => Len(Deref(vector_sum_col)) = Cols(mm_result)
            /\ vector_sum_row # nullptr => Len(Deref(vector_sum_row)) = Rows(mm_result)
            /\ offset_runs' = offset_runs + 1
            /\ offset_ret' = [op |-> "run_op", window |-> w,
                              status |-> IF outcome = "RUN" THEN "OK" ELSE outcome]
            /\ mm_result' \in offset_run_results(outcome, w, mm_result, vector_sum_col,
                                                 vector_sum_row, _a_offset, _b_offset,
                                                 _k, _scale)
            /\ UNCHANGED <<activation_state, functions_state, offset_members, vector_sum_col, vector_sum_row,
                           offset_window>>

\* the tensors of the offset contribution kernel's caller
Accumulators(rows, cols) == [i \in 1..rows |-> [j \in 1..cols |-> 10 * i + j - 1]]
ColumnSums(n) == [j \in 1..n |-> 4 + j]
RowSums(n) == [i \in 1..n |-> 6 + i]

\* the matrix multiply kernel writes the accumulators afresh
CallerFillsAccumulators ==
    /\ offset_runs > 0
    /\ mm_result' = Accumulators(Rows(mm_result), Cols(mm_result))
    /\ offset_runs' = 0
    /\ offset_ret' = [op |-> "none", status |-> "OK"]
    /\ UNCHANGED <<activation_state, functions_state, offset_members, vector_sum_col, vector_sum_row,
                   offset_window>>

\* the caller computes, or drops, the vectors of sums
CallerSetsSums ==
    /\ BetweenBatches
    /\ vector_sum_col' \in {nullptr, Ptr(ColumnSums(Cols(mm_result))),
                            Ptr(ColumnSums(Cols(mm_result) + 1))}
    /\ vector_sum_row' \in {nullptr, Ptr(RowSums(Rows(mm_result)))}
    /\ <<vector_sum_col', vector_sum_row'>> # <<vector_sum_col, vector_sum_row>>
    /\ offset_ret' = [op |-> "none", status |-> "OK"]
    /\ UNCHANGED <<activation_state, functions_state, offset_members, mm_result, offset_window, offset_runs>>

\* the activation kernel freshly constructed and left alone, the offset
\* contribution kernel freshly constructed, its caller holding the accumulators
InitOffset ==
    /\ hw = {"neon"}
    /\ src = nullptr
    /\ dst = nullptr
    /\ act = DefaultActivationLayerInfo
    /\ Constructed
    /\ NotRunning
    /\ _func = nullptr
    /\ _a_offset = 0
    /\ _b_offset = 0
    /\ _k = 0
    /\ _scale = 1
    /\ _slide_vector_sum_col = TRUE
    /\ mm_result \in {Accumulators(1, 1), Accumulators(2, 2)}
    /\ FunctionsConstructed
    /\ vector_sum_col = nullptr
    /\ vector_sum_row = nullptr
    /\ offset_window = <<>>
    /\ offset_runs = 0
    /\ offset_ret = [op |-> "none", status |-> "OK"]

NextOffset ==
    \/ OffsetValidate
    \/ OffsetConfigure
    \/ SetAOffset
    \/ SetBOffset
    \/ SetScale
    \/ OffsetRunOp
    \/ CallerFillsAccumulators
    \/ CallerSetsSums

SpecOffset == InitOffset /\ [][NextOffset]_vars

----------------------------------------------------------------------------
(* SpecLut: one call of init_lut, followed through the iterations of its loop *)

\* the functions of init_lut's switch that are exact in float on the codes used
LutFunctions == {"BOUNDED_RELU", "LU_BOUNDED_RELU", "LEAKY_RELU"}
LutQInfos == {[scale |-> <<1, 128>>, offset |-> 0], [scale |-> <<1, 64>>, offset |-> 10]}

\* entry of init_lut: the table passed in holds nothing yet
InitLut ==
    /\ hw = {"neon", "aarch64"}
    /\ src = nullptr
    /\ dst = nullptr
    /\ act = DefaultActivationLayerInfo
    /\ Constructed
    /\ NotRunning
    /\ OffsetConstructed
    /\ \E f \in LutFunctions, dt \in {"QASYMM8", "QASYMM8_SIGNED"},
          qi_in \in LutQInfos, qi_out \in LutQInfos :
          lut_args = init_lut(f, dt, qi_in, qi_out, 2, -1)
    /\ tmp_lut = <<>>
    /\ lut_i = 0
    /\ lut_writes = [j \in 0..255 |-> 0]
    /\ ReduceConstructed
    /\ UpsampleConstructed

\* one iteration of "for (size_t i = 0; i < lut.size(); ++i)": lut[i] is assigned
InitLutIteration ==
    /\ lut_args # <<>>
    /\ lut_i < lut_args.size
    /\ tmp_lut' = [j \in 0..lut_i |->
                      IF j = lut_i THEN init_lut_entry(lut_args, lut_i) ELSE tmp_lut[j]]
    /\ lut_writes' = [lut_writes EXCEPT ![lut_i] = @ + 1]
    /\ lut_i' = lut_i + 1
    /\ UNCHANGED <<activation_state, offset_state, lut_args, reduce_state, upsample_state>>

NextLut == InitLutIteration

SpecLut == InitLut /\ [][NextLut]_vars

----------------------------------------------------------------------------
(* SpecReduce: one NEReduceMean object, configured and run by its caller.    *)
(* The caller passes an input of a supported or unsupported data type and an *)
(* output without a shape, which configure initialises.                      *)

\* the longest list of reduction axes and the highest rank of an input followed
MaxAxes == 3

\* the tensors a stage is configured on are the caller's <<"input">> and
\* <<"output">> and the intermediates
ReducedOut(i) == <<"_reduced_outs", i>>

\* convert_negative_axis(axis_local, input_dims): a negative axis counts from the end
convert_negative_axis(axis, input_dims) ==
    [i \in 1..Len(axis) |-> IF axis[i] < 0 THEN axis[i] + input_dims ELSE axis[i]]

\* validate_config(input, reduction_axis, keep_dims, output) for an output
\* without a shape: the checks up to the loop over the axes
validate_config(input, reduction_axis, keep_dims) ==
    IF input.data_type \notin {"QASYMM8_SIGNED", "QASYMM8", "F16", "F32"}
    THEN "DATA_TYPE_NOT_IN"
    ELSE IF Len(reduction_axis) < 1 THEN "NO_REDUCTION_AXIS"
    ELSE IF Len(reduction_axis) > input.num_dimensions THEN "TOO_MANY_AXES"
    ELSE IF \E i \in 1..Len(reduction_axis) :
                \/ reduction_axis[i] < -input.num_dimensions
                \/ reduction_axis[i] >= input.num_dimensions
         THEN "AXIS_OUT_OF_RANGE"
    ELSE "OK"

\* _reduced_outs.resize(...) with one entry too few
reduced_outs_size_one_short(reduction_ops, keep_dims) == reduction_ops - 1

\* the size of _reduced_outs: _reduction_ops - (keep_dims ? 1 : 0)
reduced_outs_size(reduction_ops, keep_dims) ==
    reduction_ops - (IF keep_dims THEN 1 ELSE 0)

\* the tensor stage i (from 0) reads
stage_in(i) == IF i = 0 THEN <<"input">> ELSE ReducedOut(i - 1)

\* whether stage i writes the caller's output
writes_output(i, reduction_ops, keep_dims) == i = reduction_ops - 1 /\ keep_dims

\* the tensor stage i (from 0) writes
stage_out(i, reduction_ops, keep_dims) ==
    IF writes_output(i, reduction_ops, keep_dims) THEN <<"output">> ELSE ReducedOut(i)

\* the indices at which configure subscripts _reduced_outs: in the loop over
\* the stages, in the allocation loop and for the reshape layer
configure_accesses(reduction_ops, keep_dims) ==
    {i - 1 : i \in 1..(reduction_ops - 1)}
    \cup {i \in 0..(reduction_ops - 1) : ~writes_output(i, reduction_ops, keep_dims)}
    \cup {i \in 0..(reduction_ops - (IF keep_dims THEN 1 ELSE 0) - 1) : TRUE}
    \cup (IF keep_dims THEN {} ELSE {reduction_ops - 1})

\* the inputs the caller passes: of rank 1 or MaxAxes, one of them of a data
\* type validate_config rejects
ReduceInputs ==
    {[num_dimensions |-> r, data_type |-> "F32"] : r \in {1, MaxAxes}}
    \cup {[num_dimensions |-> MaxAxes, data_type |-> "S32"]}

\* NEReduceMean::validate(input, reduction_axis, keep_dims, output)
ReduceValidate ==
    \E input \in ReduceInputs, n \in 0..MaxAxes, keep_dims \in BOOLEAN :
        \E reduction_axis \in [1..n -> {-1, 0, MaxAxes}] :
            /\ reduce_pc = "idle"
            /\ reduce_ret' = [op |-> "validate",
                              status |-> validate_config(input, reduction_axis, keep_dims)]
            /\ reduce_trace' = <<>>
            /\ UNCHANGED <<activation_state, offset_state, init_lut_state, upsample_state, reduce_members,
                           reduced_outs_accesses, reduce_pc>>

\* NEReduceMean::configure(input, reduction_axis, keep_dims, output)
ReduceConfigure ==
    \E input \in ReduceInputs, n \in 0..MaxAxes, keep_dims \in BOOLEAN :
        \E reduction_axis \in [1..n -> {-1, 0, MaxAxes}] :
            LET status == validate_config(input, reduction_axis, keep_dims)
                axis_local == convert_negative_axis(reduction_axis, input.num_dimensions)
                size == reduced_outs_size(n, keep_dims)
            IN  /\ reduce_pc = "idle"
                /\ reduce_ret' = [op |-> "configure", status |-> status]
                /\ IF status # "OK"
                   THEN UNCHANGED <<reduce_members, reduced_outs_accesses>>
                   ELSE /\ _reduction_ops' = n
                        /\ _keep_dims' = keep_dims
                        /\ _reduction_kernels' =
                              [i \in 1..n |-> [in |-> stage_in(i - 1),
                                               out |-> stage_out(i - 1, n, keep_dims),
                                               axis |-> axis_local[i]]]
                        /\ _reduced_outs' = [i \in 1..size |-> [allocated |-> TRUE]]
                        /\ reduced_outs_accesses' =
                              {[index |-> a, size |-> size] : a \in configure_accesses(n, keep_dims)}
                        /\ _reshape' = IF keep_dims THEN _reshape
                                       ELSE [configured |-> TRUE, in |-> ReducedOut(n - 1),
                                             out |-> <<"output">>]
                /\ reduce_trace' = <<>>
                /\ UNCHANGED <<activation_state, offset_state, init_lut_state, upsample_state, reduce_pc>>

\* the caller runs a function it has configured: run() is entered
ReduceRunEnter ==
    /\ reduce_pc = "idle"
    /\ _reduction_ops > 0
    /\ reduce_pc' = "kernels"
    /\ reduce_trace' = <<>>
    /\ reduce_ret' = [op |-> "run", status |-> "RUNNING"]
    /\ UNCHANGED <<activation_state, offset_state, init_lut_state, upsample_state, reduce_members,
                   reduced_outs_accesses>>

\* "for (auto &kernel : _reduction_kernels) kernel.run();": the next kernel runs
ReduceRunKernel ==
    /\ reduce_pc = "kernels"
    /\ Len(reduce_trace) < Len(_reduction_kernels)
    /\ reduce_trace' = Append(reduce_trace,
                              [stage |-> <<"_reduction_kernels", Len(reduce_trace)>>,
                               in |-> _reduction_kernels[Len(reduce_trace) + 1].in,
                               out |-> _reduction_kernels[Len(reduce_trace) + 1].out])
    /\ UNCHANGED <<activation_state, offset_state, init_lut_state, upsample_state, reduce_members,
                   reduced_outs_accesses, reduce_pc, reduce_ret>>

\* ReduceRunReshape that runs the reshape layer whenever it has been configured
ReduceRunReshape_if_configured ==
    /\ reduce_pc = "kernels"
    /\ Len(reduce_trace) = Len(_reduction_kernels)
    /\ _reshape.configured
    /\ reduce_pc' = "return"
    /\ reduce_trace' = Append(reduce_trace,
                              [stage |-> <<"_reshape">>, in |-> _reshape.in, out |-> _reshape.out])
    /\ UNCHANGED <<activation_state, offset_state, init_lut_state, upsample_state, reduce_members,
                   reduced_outs_accesses, reduce_ret>>

\* "if (!_keep_dims) _reshape.run();"
ReduceRunReshape ==
    /\ reduce_pc = "kernels"
    /\ Len(reduce_trace) = Len(_reduction_kernels)
    /\ ~_keep_dims
    /\ reduce_pc' = "return"
    /\ reduce_trace' = Append(reduce_trace,
                              [stage |-> <<"_reshape">>, in |-> _reshape.in, out |-> _reshape.out])
    /\ UNCHANGED <<activation_state, offset_state, init_lut_state, upsample_state, reduce_members,
                   reduced_outs_accesses, reduce_ret>>

\* run() returns, past the reshape or without one
ReduceRunReturn ==
    /\ \/ reduce_pc = "return"
       \/ /\ reduce_pc = "kernels"
          /\ Len(reduce_trace) = Len(_reduction_kernels)
          /\ _keep_dims
    /\ reduce_pc' = "idle"
    /\ reduce_ret' = [op |-> "run", status |-> "OK"]
    /\ UNCHANGED <<activation_state, offset_state, init_lut_state, upsample_state, reduce_members,
                   reduced_outs_accesses, reduce_trace>>

InitReduce ==
    /\ hw = {"neon"}
    /\ src = nullptr
    /\ dst = nullptr
    /\ act = DefaultActivationLayerInfo
    /\ Constructed
    /\ NotRunning
    /\ OffsetConstructed
    /\ FunctionsConstructed

NextReduce ==
    \/ ReduceValidate
    \/ ReduceConfigure
    \/ ReduceRunEnter
    \/ ReduceRunKernel
    \/ ReduceRunReshape
    \/ ReduceRunReturn

SpecReduce == InitReduce /\ [][NextReduce]_vars

----------------------------------------------------------------------------
(* SpecUpsample: one CLDeconvolutionLayerUpsample function, configured and   *)
(* run by its caller; the kernels it enqueues go to one in-order queue       *)

\* the runs followed
MaxUpsampleRuns == 2

\* the tensors and strides the caller configures the function with
UpsampleInputs == {Ptr("input1"), Ptr("input2")}
UpsampleOutputs == {Ptr("output1"), Ptr("output2"), Ptr("output3")}
UpsampleInfos == {<<1, 1>>, <<2, 2>>}

\* void configure(compile_context, input, output, info), input and output non-null
UpsampleConfigure ==
    \E input \in UpsampleInputs, output \in UpsampleOutputs, info \in UpsampleInfos :
        /\ upsample_pc = "idle"
        /\ _output' = output
        /\ _fill' = [configured |-> TRUE, tensor |-> _output', constant_value |-> 0]
        /\ _upsample' = [configured |-> TRUE, input |-> input, output |-> _output', info |-> info]
        /\ upsample_ret' = [op |-> "configure", status |-> "OK"]
        /\ UNCHANGED <<activation_state, offset_state, init_lut_state, reduce_state,
                       upsample_pc, upsample_runs, cl_queue>>

\* run() of a configured function: "_fill.run();" enqueues the fill of its tensor
UpsampleRunFill ==
    /\ upsample_pc = "idle"
    /\ _fill.configured
    /\ _upsample.configured
    /\ upsample_runs < MaxUpsampleRuns
    /\ upsample_runs' = upsample_runs + 1
    /\ upsample_pc' = "enqueue"
    /\ cl_queue' = Append(cl_queue, [kernel |-> "fill", run |-> upsample_runs',
                                     tensor |-> _fill.tensor,
                                     constant_value |-> _fill.constant_value])
    /\ upsample_ret' = [op |-> "run", status |-> "RUNNING"]
    /\ UNCHANGED <<activation_state, offset_state, init_lut_state, reduce_state,
                   upsample_members>>

\* UpsampleRunEnqueue that puts the upsample kernel at the head of the queue
UpsampleRunEnqueue_at_head ==
    /\ upsample_pc = "enqueue"
    /\ upsample_pc' = "idle"
    /\ cl_queue' = <<[kernel |-> "upsample", run |-> upsample_runs,
                      tensor |-> _upsample.output, constant_value |-> 0]>> \o cl_queue
    /\ upsample_ret' = [op |-> "run", status |-> "OK"]
    /\ UNCHANGED <<activation_state, offset_state, init_lut_state, reduce_state,
                   upsample_members, upsample_runs>>

\* "CLScheduler::get().enqueue(*_upsample, true);" and the return of run()
UpsampleRunEnqueue ==
    /\ upsample_pc = "enqueue"
    /\ upsample_pc' = "idle"
    /\ cl_queue' = Append(cl_queue, [kernel |-> "upsample", run |-> upsample_runs,
                                     tensor |-> _upsample.output, constant_value |-> 0])
    /\ upsample_ret' = [op |-> "run", status |-> "OK"]
    /\ UNCHANGED <<activation_state, offset_state, init_lut_state, reduce_state,
                   upsample_members, upsample_runs>>

InitUpsample ==
    /\ hw = {"neon"}
    /\ src = nullptr
    /\ dst = nullptr
    /\ act = DefaultActivationLayerInfo
    /\ Constructed
    /\ NotRunning
    /\ OffsetConstructed
    /\ FunctionsConstructed

NextUpsample == UpsampleConfigure \/ UpsampleRunFill \/ UpsampleRunEnqueue

SpecUpsample == InitUpsample /\ [][NextUpsample]_vars

----------------------------------------------------------------------------
(* Properties of validate *)

\* the last call was validate on a non-null source; ret.status is its result
\* for the src, dst and act of this state
Validated == ret.op = "validate" /\ src # nullptr

SrcType == Deref(src).data_type
OutputQ == oq_info(src, dst)
OutputPair == <<OutputQ.scale, OutputQ.offset>>

\* nothing but the function whitelist and the mandated quantization can fail
VariantSelectable == kernel(hw, src, dst, act) # nullptr
DstMatches ==
    \/ dst = nullptr
    \/ total_size(Deref(dst)) = 0
    \/ /\ Deref(dst).tensor_shape = Deref(src).tensor_shape
       /\ Deref(dst).data_type = SrcType

\* the (scale, zero point) pairs mandated for TANH and LOGISTIC outputs
MandatedPairs ==
    { <<"QASYMM8", "TANH", <<<<1, 128>>, 128>> >>,
      <<"QASYMM8", "LOGISTIC", <<<<1, 256>>, 0>> >>,
      <<"QASYMM8_SIGNED", "TANH", <<<<1, 128>>, 0>> >>,
      <<"QASYMM8_SIGNED", "LOGISTIC", <<<<1, 256>>, -128>> >>,
      <<"QSYMM16", "TANH", <<<<1, 32768>>, 0>> >>,
      <<"QSYMM16", "LOGISTIC", <<<<1, 32768>>, 0>> >> }

HasMandatedOutput ==
    \A m \in MandatedPairs : (m[1] = SrcType /\ m[2] = act.f) => OutputPair = m[3]

\* C1: with an 8-bit asymmetric source and a dynamic output quantization,
\* validate succeeds for RELU, BOUNDED_RELU, LU_BOUNDED_RELU, LOGISTIC, TANH,
\* HARD_SWISH, LEAKY_RELU and GELU (given the mandated output quantization and
\* a matching destination) and fails for every other function.
C1_DynamicWhitelist ==
    (/\ Validated
     /\ SrcType \in {"QASYMM8", "QASYMM8_SIGNED"}
     /\ OutputQ.is_dynamic
     /\ VariantSelectable /\ DstMatches /\ HasMandatedOutput)
    => (ret.status = "OK" <=>
            act.f \in {"RELU", "BOUNDED_RELU", "LU_BOUNDED_RELU", "LOGISTIC", "TANH",
                       "HARD_SWISH", "LEAKY_RELU", "GELU"})

\* C2: with an 8-bit asymmetric source and a static (not dynamic) output
\* quantization, validate accepts RELU, BOUNDED_RELU and LU_BOUNDED_RELU and
\* rejects every other function with the "statically quantized" error.
C2_StaticWhitelist ==
    (/\ Validated
     /\ SrcType \in {"QASYMM8", "QASYMM8_SIGNED"}
     /\ ~OutputQ.is_dynamic
     /\ VariantSelectable /\ DstMatches)
    => IF act.f \in {"RELU", "BOUNDED_RELU", "LU_BOUNDED_RELU"}
       THEN ret.status = "OK"
       ELSE ret.status = "STATIC_QUANT_ONLY_RELU"

\* C3: with a QSYMM16 source validate accepts only LOGISTIC and TANH; every
\* other function, HARD_SWISH and LU_BOUNDED_RELU included, is rejected.
C3_Qsymm16Whitelist ==
    (Validated /\ SrcType = "QSYMM16")
    => /\ act.f \notin {"LOGISTIC", "TANH"} => ret.status # "OK"
       /\ (/\ act.f \in {"LOGISTIC", "TANH"}
           /\ VariantSelectable /\ DstMatches /\ HasMandatedOutput) => ret.status = "OK"

\* C4: for TANH on a QASYMM8 source with otherwise legal arguments, validate
\* succeeds if and only if the output quantization is (1/128, 128).
C4_TanhQasymm8 ==
    (/\ Validated
     /\ SrcType = "QASYMM8" /\ act.f = "TANH"
     /\ VariantSelectable /\ DstMatches)
    => (ret.status = "OK" <=> OutputPair = <<<<1, 128>>, 128>>)

\* C5: for QASYMM8 LOGISTIC, QASYMM8_SIGNED TANH and LOGISTIC, QSYMM16 TANH and
\* LOGISTIC, validate fails whenever the output quantization differs from the
\* mandated pair, and never fails on a mandated-quantization check when the
\* output quantization equals it.
C5_MandatedOutputQuantization ==
    Validated =>
        \A m \in MandatedPairs \ { <<"QASYMM8", "TANH", <<<<1, 128>>, 128>> >> } :
            (m[1] = SrcType /\ m[2] = act.f) =>
                /\ OutputPair # m[3] => ret.status # "OK"
                /\ OutputPair = m[3] =>
                      ret.status \notin {"QASYMM8_TANH", "QASYMM8_LOGISTIC",
                                         "QASYMM8_SIGNED_TANH", "QASYMM8_SIGNED_LOGISTIC",
                                         "QSYMM16_TANH", "QSYMM16_LOGISTIC"}

\* a QASYMM8_SIGNED LOGISTIC call whose only fault is the output zero point
C5_Witness ==
    /\ Validated
    /\ SrcType = "QASYMM8_SIGNED" /\ act.f = "LOGISTIC"
    /\ OutputPair = <<<<1, 256>>, 0>>
    /\ ret.status = "QASYMM8_SIGNED_LOGISTIC"

\* C6: with a non-null destination of nonzero total size validate fails unless
\* its shape and data type both equal the source's; with a null or empty
\* destination no shape or data type comparison is made.
C6_DestinationMatch ==
    Validated =>
        /\ (/\ dst # nullptr
            /\ total_size(Deref(dst)) # 0
            /\ \/ Deref(dst).tensor_shape # Deref(src).tensor_shape
               \/ Deref(dst).data_type # SrcType) => ret.status # "OK"
        /\ (dst = nullptr \/ total_size(Deref(dst)) = 0) =>
              ret.status \notin {"MISMATCHING_SHAPES", "MISMATCHING_DATA_TYPES"}

\* a destination that differs from the source in data type only, rejected for it
C6_Witness ==
    /\ Validated
    /\ dst # nullptr
    /\ total_size(Deref(dst)) # 0
    /\ Deref(dst).tensor_shape = Deref(src).tensor_shape
    /\ Deref(dst).data_type # SrcType
    /\ ret.status = "MISMATCHING_DATA_TYPES"

----------------------------------------------------------------------------
(* Properties of validate and configure as steps *)

\* C7: a validate call changes neither the source, the destination, the
\* activation info nor any member of the kernel, and repeated on the same
\* arguments it returns the same status.
C7_ValidateHasNoSideEffects ==
    [][ret'.op = "validate" =>
          /\ UNCHANGED <<src, dst, act, _heuristics, _name, _act_info, _window>>
          /\ ret.op = "validate" => ret'.status = ret.status]_vars

\* validate has succeeded on an empty destination, which is still empty, while
\* the kernel holds an earlier configuration for another function
C7_Witness ==
    /\ ret = [op |-> "validate", status |-> "OK"]
    /\ dst # nullptr
    /\ total_size(Deref(dst)) = 0
    /\ _name # <<>>
    /\ _act_info.f # act.f

\* C8: a configure call whose validation fails leaves the destination
\* descriptor and the kernel's selected variant, name, activation info and
\* window as they were.
C8_FailedConfigureMutatesNothing ==
    [][(ret'.op = "configure" /\ ret'.status # "OK") =>
          UNCHANGED <<dst, _heuristics, _name, _act_info, _window>>]_vars

\* configure has failed on an empty destination, which is still empty, while the
\* kernel holds an earlier configuration
C8_Witness ==
    /\ ret.op = "configure"
    /\ ret.status # "OK"
    /\ dst # nullptr
    /\ total_size(Deref(dst)) = 0
    /\ _name # <<>>

\* C9: a successful configure with a non-null destination gives an empty
\* destination the source's shape and data type and leaves an initialised
\* destination unchanged.
C9_DestinationAutoInit ==
    [][(ret'.op = "configure" /\ ret'.status = "OK" /\ dst # nullptr) =>
          IF total_size(Deref(dst)) = 0
          THEN /\ dst' # nullptr
               /\ Deref(dst').tensor_shape = Deref(src).tensor_shape
               /\ Deref(dst').data_type = Deref(src).data_type
          ELSE dst' = dst]_vars

\* configure has initialised a destination: only the empty destinations of Spec
\* carry a dynamic quantization info
C9_Witness ==
    /\ ret = [op |-> "configure", status |-> "OK"]
    /\ dst # nullptr
    /\ Deref(dst).quantization_info.is_dynamic
    /\ total_size(Deref(dst)) # 0
    /\ Deref(dst).tensor_shape = Deref(src).tensor_shape
    /\ Deref(dst).data_type = Deref(src).data_type

\* C10: after a successful configure (on an aarch64 build) the stored activation info carries a
\* 256-entry table exactly when the source is QASYMM8 or QASYMM8_SIGNED and the
\* function is neither IDENTITY nor RELU, and that table is one the LUTManager
\* was asked for.
C10_Lut256FromManager ==
    (ret = [op |-> "configure", status |-> "OK"] /\ "aarch64" \in hw) =>
        /\ _act_info.lut256 # nullptr <=>
              /\ SrcType \in {"QASYMM8", "QASYMM8_SIGNED"}
              /\ _act_info.f \notin {"IDENTITY", "RELU"}
        /\ _act_info.lut256 # nullptr =>
              /\ Deref(_act_info.lut256).size = 256
              /\ Deref(_act_info.lut256).built_by = "LUTManager"
              /\ \E info \in lut_manager : info.act = _act_info.f /\ info.dt = SrcType

----------------------------------------------------------------------------
(* Properties of run_op *)

Configured == is_window_configured(_window)

\* the destination buffer after the routine has handled every element of the
\* configured window once, on the caller's input
WholeWindowResult ==
    LET dt == Deref(src).data_type
        n  == Deref(src).tensor_shape[1]
    IN  [i \in 1..n |-> ukernel_element(_act_info, src, dst, InputData(dt, n)[i])]

\* C11: when the stored activation is disabled, a call of run_op returns
\* normally without entering the micro-kernel routine and leaves the tensors
\* of the pack as they were, whatever the pack and the sub-window.
C11_DisabledRunDoesNothing ==
    [][(~_act_info.enabled /\ ret'.op = "run_op") =>
          /\ ret'.status = "OK"
          /\ tensors' = tensors
          /\ threads' = threads
          /\ \A t \in Threads : threads[t].pc = "idle"]_vars

C11_Witness ==
    /\ ret = [op |-> "run_op", status |-> "OK"]
    /\ Configured
    /\ ~_act_info.enabled
    /\ ~invalid_subwindow(_window, run_arg)
    /\ ~tensors.empty
    /\ tensors.dst = PreCallData(Deref(src).data_type, Deref(src).tensor_shape[1])
    /\ AllIdle

\* C12: a call of run_op on a kernel on which no configure has succeeded ends
\* in a fatal error, never in a normal return.
C12_UnconfiguredRunIsFatal ==
    (ret.op = "run_op" /\ ~Configured) => ret.status \in Fatal

\* C13: a call of run_op on a configured kernel with a sub-window that is not
\* contained in the configured window ends in a fatal error, and the routine
\* is never entered with such a sub-window.
C13_InvalidSubwindowIsFatal ==
    /\ (ret.op = "run_op" /\ Configured /\ invalid_subwindow(_window, run_arg)) =>
           ret.status \in Fatal
    /\ \A t \in Threads :
           threads[t].pc = "run_method" => ~invalid_subwindow(_window, threads[t].window)

\* C14: for a configured, enabled activation, once run_op has been called
\* exactly once for each sub-window of a partition of the configured window,
\* in any order, the destination holds what one run_op over the whole window
\* leaves there.
C14_PartitionEqualsWholeWindow ==
    ( /\ Configured
      /\ _act_info.enabled
      /\ ~tensors.empty
      /\ AllIdle
      /\ \A i \in DOMAIN calls : calls[i] = 1 ) =>
        tensors.dst = WholeWindowResult

C14_Witness ==
    /\ Configured
    /\ _act_info.enabled
    /\ _act_info.lut256 # nullptr
    /\ ~tensors.empty
    /\ AllIdle
    /\ \A i \in DOMAIN calls : calls[i] = 1
    /\ ret = [op |-> "run_op", status |-> "OK"]
    /\ run_arg # _window
    /\ tensors.dst = WholeWindowResult

\* C15: a step of run_op changes no member of the kernel; a thread inside the
\* routine was given the sub-window of its call, and the sub-windows of
\* threads inside the routine are disjoint; an element of the destination
\* changes only in a step of the thread whose sub-window holds it.
C15_ConcurrentRunsAreIndependent ==
    /\ [](\A t, u \in Threads :
            threads[t].pc = "run_method" =>
              /\ threads[t].window = threads[t].arg
              /\ threads[t].pos \in threads[t].arg[1].start .. threads[t].arg[1].end
              /\ (u # t => Elements(threads[t].arg) \cap Elements(threads[u].arg) = {}))
    /\ [][(ret'.op = "run_op" \/ threads' # threads) =>
            /\ members' = members
            /\ \A i \in DOMAIN tensors.dst :
                 tensors'.dst[i] # tensors.dst[i] =>
                   \E t \in Threads : /\ threads[t].pc = "run_method"
                                      /\ threads'[t].pos = threads[t].pos + 1
                                      /\ i = threads'[t].pos
                                      /\ i \in Elements(threads[t].arg)]_vars

C15_Witness ==
    /\ \A t \in Threads : threads[t].pc = "run_method"
    /\ threads["t1"].pos > threads["t1"].arg[1].start
    /\ threads["t2"].pos > threads["t2"].arg[1].start
    /\ tensors.dst = WholeWindowResult

\* C18: on a configured kernel name() is "CpuActivationKernel/" followed by
\* the name of the selected variant, and no run_op or get_mws call changes it.
C18_NameOfConfiguredKernel ==
    /\ [](Configured =>
            /\ _heuristics.kernel # nullptr
            /\ _name = <<"CpuActivationKernel", "/", Deref(_heuristics.kernel).name>>)
    /\ [][ret'.op \in {"run_op", "get_mws"} => _name' = _name]_vars

C18_Witness ==
    /\ Configured
    /\ ret = [op |-> "get_mws", status |-> "OK", mws |-> <<"mws", "neon_qu8_activation">>]
    /\ \E i \in DOMAIN calls : calls[i] > 0
    /\ _name = <<"CpuActivationKernel", "/", "neon_qu8_activation">>

----------------------------------------------------------------------------
(* Properties of the lookup tables *)

\* C17: over any sequence of configure calls, the table for one key (function,
\* a, b, data type, input and output quantization) is synthesized at most
\* once; a later configure for the key does not fill it again.
C17_TableSynthesizedOnce ==
    \A lut \in BagToSet(init_lut_passes) : CopiesIn(lut, init_lut_passes) = 1

----------------------------------------------------------------------------
(* Properties of the offset contribution kernel *)

\* entry idx of a vector of sums, 0 for a missing vector
SumAt(vec, idx) == IF vec = nullptr THEN 0 ELSE Deref(vec)[idx]

\* a missing vector of sums has a zero offset, a present one fits mm_result
LegalSums(a, b) ==
    /\ vector_sum_col = nullptr => a = 0
    /\ vector_sum_row = nullptr => b = 0
    /\ vector_sum_col # nullptr => Len(Deref(vector_sum_col)) = Cols(mm_result)
    /\ vector_sum_row # nullptr => Len(Deref(vector_sum_row)) = Rows(mm_result)

\* C19: with scale 1, a run_op that completes leaves every element (i, j) of
\* its window at its previous value + vector_sum_col[j] * a_offset +
\* vector_sum_row[i] * b_offset + a_offset * b_offset * k; the 1x1 accumulator
\* 10 with k = 1, a_offset = 2, b_offset = 3, sums [5] and [7] becomes 47.
C19_OffsetContribution ==
    /\ [][(offset_runs' = offset_runs + 1 /\ offset_ret'.status = "OK" /\ _scale = 1) =>
            \A i \in 1..Rows(mm_result), j \in 1..Cols(mm_result) :
                InWindow(offset_ret'.window, i, j) =>
                    mm_result'[i][j] =
                        mm_result[i][j] + SumAt(vector_sum_col, j) * _a_offset
                                        + SumAt(vector_sum_row, i) * _b_offset
                                        + _a_offset * _b_offset * _k]_vars
    /\ []((/\ offset_ret.op = "run_op"
           /\ offset_ret.status = "OK"
           /\ offset_runs = 1
           /\ Rows(mm_result) = 1
           /\ Cols(mm_result) = 1
           /\ _scale = 1
           /\ <<_k, _a_offset, _b_offset>> = <<1, 2, 3>>
           /\ vector_sum_col = Ptr(<<5>>)
           /\ vector_sum_row = Ptr(<<7>>)) => mm_result = << <<47>> >>)

C19_Witness ==
    /\ offset_ret.op = "run_op"
    /\ offset_ret.status = "OK"
    /\ offset_runs = 1
    /\ _scale = 1
    /\ <<_k, _a_offset, _b_offset>> = <<1, 2, 3>>
    /\ vector_sum_col = Ptr(<<5>>)
    /\ vector_sum_row = Ptr(<<7>>)
    /\ mm_result = << <<47>> >>

\* C20: validate (and the validation inside configure) fails when
\* vector_sum_col is null with a non-zero a_offset or vector_sum_row is null
\* with a non-zero b_offset, succeeds when every missing vector has a zero
\* offset and every present one fits, and a configure that fails leaves
\* _func, _a_offset, _b_offset, _k, _scale, _slide_vector_sum_col and the
\* kernel's window as they were.
C20_NullSumsAndOffsets ==
    /\ [](offset_ret.op \in {"validate", "configure"} =>
            /\ (vector_sum_col = nullptr /\ offset_ret.a_offset # 0) =>
                   offset_ret.status # "OK"
            /\ (vector_sum_row = nullptr /\ offset_ret.b_offset # 0) =>
                   offset_ret.status # "OK"
            /\ LegalSums(offset_ret.a_offset, offset_ret.b_offset) =>
                   offset_ret.status = "OK")
    /\ [][(offset_ret'.op = "configure" /\ offset_ret'.status # "OK") =>
            UNCHANGED <<offset_members, offset_window>>]_vars

C20_Witness ==
    /\ offset_ret.op = "configure"
    /\ offset_ret.status = "NULL_VECTOR_SUM_COL"
    /\ offset_ret.a_offset # 0
    /\ vector_sum_col = nullptr
    /\ _func # nullptr
    /\ <<_k, _a_offset, _b_offset, _scale>> = <<2, 0, 3, 2>>

\* the last run_op went into the contribution function
OffsetRan == offset_ret.op = "run_op" /\ offset_ret.status \in {"OK", "RUN_WITHOUT_SUMS"}

\* every non-zero offset of the kernel has its vector of sums in the pack
SumsPresent ==
    /\ _a_offset # 0 => vector_sum_col # nullptr
    /\ _b_offset # 0 => vector_sum_row # nullptr

C22_RunIsInPlace ==
    [][offset_runs' = offset_runs + 1 =>
          /\ UNCHANGED <<vector_sum_col, vector_sum_row, offset_members, offset_window>>
          /\ Rows(mm_result') = Rows(mm_result)
          /\ Cols(mm_result') = Cols(mm_result)
          /\ \A i \in 1..Rows(mm_result), j \in 1..Cols(mm_result) :
                mm_result'[i][j] # mm_result[i][j] =>
                    /\ j - 1 >= offset_ret'.window[1].start
                    /\ j - 1 < offset_ret'.window[1].end
                    /\ i - 1 >= offset_ret'.window[2].start
                    /\ i - 1 < offset_ret'.window[2].end]_vars

C22_Witness ==
    /\ offset_ret.op = "run_op"
    /\ offset_ret.status = "OK"
    /\ Rows(mm_result) = 2
    /\ offset_ret.window[2].end = 1
    /\ mm_result[1] # Accumulators(2, 2)[1]
    /\ mm_result[2] = Accumulators(2, 2)[2]

----------------------------------------------------------------------------
(* Properties of the selected variant *)

\* C23: whenever validate succeeds or configure completes, the selected
\* variant is non-null and so is its routine pointer; run_op on a configured,
\* enabled kernel therefore never fails the null-routine precondition.
C23_SelectedRoutineNonNull ==
    /\ validate(hw, src, dst, act) = "OK" =>
          /\ kernel(hw, src, dst, act) # nullptr
          /\ Deref(kernel(hw, src, dst, act)).ukernel # nullptr
    /\ is_window_configured(_window) =>
          /\ _heuristics.kernel # nullptr
          /\ Deref(_heuristics.kernel).ukernel # nullptr
    /\ ret.status # "NULL_UKERNEL"

C23_Witness ==
    /\ "no_qasymm8_signed_kernels" \in hw
    /\ is_window_configured(_window)
    /\ _act_info.enabled
    /\ Deref(_heuristics.kernel).ukernel = Ptr("neon_qu8_activation")
    /\ ret = [op |-> "run_op", status |-> "OK"]

----------------------------------------------------------------------------
(* Properties of the order of validate's checks *)

\* the place of each check in the order the rules are documented in
RuleRank(r) ==
    CASE r \in {"F16_UNSUPPORTED", "DATA_TYPE_NOT_IN"} -> 1
      [] r = "NO_UKERNEL" -> 2
      [] r = "STATIC_QUANT_ONLY_RELU" -> 3
      [] r = "QASYMM8_ONLY" -> 4
      [] r = "QSYMM16_ONLY" -> 5
      [] r \in {"QASYMM8_TANH", "QASYMM8_LOGISTIC", "QASYMM8_SIGNED_TANH",
                "QASYMM8_SIGNED_LOGISTIC", "QSYMM16_TANH", "QSYMM16_LOGISTIC"} -> 6
      [] r = "MISMATCHING_SHAPES" -> 7
      [] r = "MISMATCHING_DATA_TYPES" -> 8

AllRules ==
    {"F16_UNSUPPORTED", "DATA_TYPE_NOT_IN", "NO_UKERNEL", "STATIC_QUANT_ONLY_RELU",
     "QASYMM8_ONLY", "QSYMM16_ONLY", "QASYMM8_TANH", "QASYMM8_LOGISTIC",
     "QASYMM8_SIGNED_TANH", "QASYMM8_SIGNED_LOGISTIC", "QSYMM16_TANH",
     "QSYMM16_LOGISTIC", "MISMATCHING_SHAPES", "MISMATCHING_DATA_TYPES"}

\* the rules the arguments of the last call violate
ViolatedRules == {r \in AllRules : ErrorOn(r, hw, src, dst, act)}

\* C24: validate returns the failure of the earliest violated rule in the order
\* supported data type, selectable variant, static-quantization whitelist,
\* 8-bit whitelist, 16-bit whitelist, mandated TANH / LOGISTIC output
\* quantization, destination shape, destination data type; it succeeds only
\* when no rule is violated.
C24_EarliestRuleReported ==
    (ret.op = "validate" /\ src # nullptr) =>
        IF ViolatedRules = {}
        THEN ret.status = "OK"
        ELSE /\ ret.status \in ViolatedRules
             /\ \A r \in ViolatedRules : RuleRank(ret.status) <= RuleRank(r)

C24_Witness ==
    /\ ret.op = "validate"
    /\ ret.status = "STATIC_QUANT_ONLY_RELU"
    /\ {"QASYMM8_ONLY", "MISMATCHING_SHAPES"} \subseteq ViolatedRules

----------------------------------------------------------------------------
(* Properties of the output quantization *)

\* the output quantization of the caller's descriptors: the destination's when
\* there is a destination, the source's when there is none
DescriptorOutputQ ==
    IF dst # nullptr THEN Deref(dst).quantization_info ELSE Deref(src).quantization_info

DescriptorOutputPair == <<DescriptorOutputQ.scale, DescriptorOutputQ.offset>>

MandatedRules ==
    {"QASYMM8_TANH", "QASYMM8_LOGISTIC", "QASYMM8_SIGNED_TANH", "QASYMM8_SIGNED_LOGISTIC",
     "QSYMM16_TANH", "QSYMM16_LOGISTIC"}

\* C25: the output quantization validate tests (static-quantization whitelist,
\* mandated TANH / LOGISTIC quantization) and configure requantizes the entries
\* of the lookup table with is the destination's quantization info when the
\* destination is non-null and the source's when it is null.
C25_OutputQuantizationSource ==
    /\ (Validated /\ ret.status \in MandatedRules) =>
          \E m \in MandatedPairs :
              m[1] = SrcType /\ m[2] = act.f /\ DescriptorOutputPair # m[3]
    /\ (Validated /\ ret.status = "STATIC_QUANT_ONLY_RELU") => DescriptorOutputQ.is_dynamic
    /\ (Validated /\ ret.status = "OK") =>
          /\ \A m \in MandatedPairs :
                (m[1] = SrcType /\ m[2] = act.f) => DescriptorOutputPair = m[3]
          /\ (SrcType \in {"QASYMM8", "QASYMM8_SIGNED"} /\ DescriptorOutputQ.is_dynamic) =>
                act.f \in qasymm8_static_quant_activations
    /\ (ret = [op |-> "configure", status |-> "OK"] /\ _act_info.lut256 # nullptr) =>
          Deref(_act_info.lut256).qi_out = uniform(DescriptorOutputQ)

C25_Witness ==
    /\ ret = [op |-> "configure", status |-> "OK"]
    /\ _act_info.lut256 # nullptr
    /\ dst # nullptr
    /\ uniform(Deref(dst).quantization_info) # uniform(Deref(src).quantization_info)
    /\ Deref(_act_info.lut256).qi_out = uniform(Deref(dst).quantization_info)

----------------------------------------------------------------------------
(* Properties of reconfiguration *)

\* the kernel's members are those a configure with the descriptors and the
\* activation of this state leaves: variant, name, window, minimum workload
\* size and activation info, with a table attached exactly when this
\* configuration needs one
HoldsThisConfiguration ==
    /\ _heuristics.kernel # nullptr
    /\ Deref(_heuristics.kernel).caps \subseteq hw
    /\ Deref(src).data_type \in Deref(_heuristics.kernel).dtypes
    /\ _name = <<"CpuActivationKernel", "/", Deref(_heuristics.kernel).name>>
    /\ _heuristics.mws = <<"mws", Deref(_heuristics.kernel).name>>
    /\ _window = _heuristics.window
    /\ Len(_window) = Len(Deref(src).tensor_shape)
    /\ \A i \in 1..Len(_window) :
          _window[i] = [start |-> 0, end |-> Deref(src).tensor_shape[i], step |-> 1]
    /\ _act_info.f = act.f /\ _act_info.a = act.a /\ _act_info.b = act.b
    /\ _act_info.enabled = act.enabled
    /\ _act_info.lut256 # nullptr <=>
          /\ "aarch64" \in hw
          /\ Deref(src).data_type \in {"QASYMM8", "QASYMM8_SIGNED"}
          /\ act.f # "RELU"
    /\ _act_info.lut256 # nullptr =>
          /\ Deref(_act_info.lut256).act_func = act.f
          /\ Deref(_act_info.lut256).data_type = Deref(src).data_type
          /\ Deref(_act_info.lut256).qi_in = uniform(Deref(src).quantization_info)
          /\ Deref(_act_info.lut256).a = act.a
          /\ Deref(_act_info.lut256).b = act.b
    /\ _act_info.lut65536 # nullptr <=>
          ("aarch64" \in hw /\ Deref(_heuristics.kernel).name = "sve_fp16_activation_lut")

\* C26: after a configure that succeeds the variant, name, window, minimum
\* workload size and stored activation info, with or without a table, are those
\* of that call's arguments, whatever the kernel held before; a configure that
\* fails leaves all of them as they were.
C26_LastConfigureWins ==
    [][ret'.op = "configure" =>
          IF ret'.status = "OK"
          THEN HoldsThisConfiguration'
          ELSE UNCHANGED <<_heuristics, _name, _act_info, _window>>]_vars

\* the kernel was configured with a table before and now holds a
\* configuration without one
C26_Witness ==
    /\ ret = [op |-> "configure", status |-> "OK"]
    /\ init_lut_passes # EmptyBag
    /\ _act_info.lut256 = nullptr
    /\ HoldsThisConfiguration

----------------------------------------------------------------------------
(* Properties of init_lut *)

\* the input code whose 8-bit pattern is i
InputCode(data_type, i) ==
    IF data_type = "QASYMM8" THEN i ELSE IF i < 128 THEN i ELSE i - 256

\* the 8-bit pattern of an output code
Pattern(code) == IF code < 0 THEN code + 256 ELSE code

\* the requantized activation of input code c under the arguments of the call
RequantizedActivation(c) ==
    LET x == <<(c - lut_args.qi_in.offset) * lut_args.qi_in.scale[1], lut_args.qi_in.scale[2]>>
        y == switch_act_func(lut_args.act_func, lut_args.a, lut_args.b, x)
    IN  quantize(lut_args.data_type, y, lut_args.qi_out)

\* C27: init_lut writes each of the 256 indices exactly once, in index order,
\* and index i holds the 8-bit pattern of the requantized activation of the
\* input code whose pattern is i: the unsigned code i for QASYMM8, the two's
\* complement code (i below 128, i - 256 from 128 on) for QASYMM8_SIGNED.
C27_TableEntries ==
    lut_args # <<>> =>
        /\ lut_i \in 0..256
        /\ DOMAIN tmp_lut = 0..(lut_i - 1)
        /\ \A j \in 0..255 : lut_writes[j] = IF j < lut_i THEN 1 ELSE 0
        /\ \A j \in DOMAIN tmp_lut :
              tmp_lut[j] = Pattern(RequantizedActivation(InputCode(lut_args.data_type, j)))

\* a call on signed data has returned with the entry of code -1 at index 255
\* differing from what the unsigned code 255 would give
C27_Witness ==
    /\ lut_args # <<>>
    /\ lut_args.data_type = "QASYMM8_SIGNED"
    /\ lut_i = 256
    /\ tmp_lut[255] = Pattern(RequantizedActivation(-1))
    /\ tmp_lut[255] # Pattern(RequantizedActivation(255))

----------------------------------------------------------------------------
(* Properties of NEReduceMean *)

\* the stages a run of the configured function is to execute, in order
ConfiguredStages ==
    [i \in 1..(_reduction_ops + (IF _keep_dims THEN 0 ELSE 1)) |->
        IF i <= _reduction_ops THEN <<"_reduction_kernels", i - 1>> ELSE <<"_reshape">>]

\* the tensors written by the stages before position p of the trace
ProducedBefore(p) == {reduce_trace[q].out : q \in 1..(p - 1)}

\* C28: a run executes the configured reduction kernels in configuration
\* order, stage 0 first and one per reduction axis, and then the reshape if and
\* only if keep_dims is false; every stage reads the caller's input or a tensor
\* an earlier stage of the same run has written, and with keep_dims true no
\* reshape runs.
C28_StagesInOrder ==
    /\ Len(reduce_trace) <= Len(ConfiguredStages)
    /\ \A p \in 1..Len(reduce_trace) :
          /\ reduce_trace[p].stage = ConfiguredStages[p]
          /\ reduce_trace[p].in = <<"input">> \/ reduce_trace[p].in \in ProducedBefore(p)
          /\ _keep_dims => reduce_trace[p].stage # <<"_reshape">>
    /\ reduce_ret = [op |-> "run", status |-> "OK"] =>
          Len(reduce_trace) = Len(ConfiguredStages)
    /\ Len(_reduction_kernels) = _reduction_ops

\* a run with keep_dims true has returned after two kernels, on an object whose
\* reshape layer is still configured from an earlier configuration
C28_Witness ==
    /\ reduce_ret = [op |-> "run", status |-> "OK"]
    /\ _keep_dims
    /\ _reshape.configured
    /\ Len(reduce_trace) = 2
    /\ reduce_trace[2].in = reduce_trace[1].out

\* C29: after configure with n >= 1 axes _reduced_outs has n - 1 entries when
\* keep_dims is true and n when it is false, every subscript configure applied
\* to it is in bounds, stage i reads the caller's input for i = 0 and
\* intermediate i - 1 otherwise, stage i writes intermediate i except that the
\* last stage writes the caller's output when keep_dims is true, and the
\* reshape, configured when keep_dims is false, reads intermediate n - 1.
C29_IntermediatesInBounds ==
    (_reduction_ops >= 1) =>
        /\ Len(_reduced_outs) = IF _keep_dims THEN _reduction_ops - 1 ELSE _reduction_ops
        /\ \A a \in reduced_outs_accesses :
              /\ a.size = Len(_reduced_outs)
              /\ 0 <= a.index
              /\ a.index < a.size
        /\ \A i \in 0..(_reduction_ops - 1) :
              /\ _reduction_kernels[i + 1].in =
                    IF i = 0 THEN <<"input">> ELSE <<"_reduced_outs", i - 1>>
              /\ _reduction_kernels[i + 1].out =
                    IF i = _reduction_ops - 1 /\ _keep_dims
                    THEN <<"output">> ELSE <<"_reduced_outs", i>>
              /\ _reduction_kernels[i + 1].out[1] = "_reduced_outs" =>
                    _reduction_kernels[i + 1].out[2] < Len(_reduced_outs)
              /\ _reduction_kernels[i + 1].in[1] = "_reduced_outs" =>
                    _reduction_kernels[i + 1].in[2] < Len(_reduced_outs)
        /\ ~_keep_dims =>
              /\ _reshape.configured
              /\ _reshape.in = <<"_reduced_outs", _reduction_ops - 1>>
              /\ _reduction_ops - 1 < Len(_reduced_outs)

\* configure has completed for three axes with keep_dims true: two
\* intermediates, the last of them read by the last stage
C29_Witness ==
    /\ reduce_ret = [op |-> "configure", status |-> "OK"]
    /\ _reduction_ops = 3
    /\ _keep_dims
    /\ Len(_reduced_outs) = 2
    /\ [index |-> 1, size |-> 2] \in reduced_outs_accesses
    /\ _reduction_kernels[3].out = <<"output">>

----------------------------------------------------------------------------
(* Properties of CLDeconvolutionLayerUpsample *)

====
